---- MODULE Spec2Model ----
(***************************************************************************)
(* A model of the relaxed HTTP/2 engine of nopasaran/tools/http_2_overwrite *)
(* (the methods it installs over h2 / hyperframe): the connection state     *)
(* machine, the connection handlers, the stream table and the frame buffer. *)
(*                                                                          *)
(* Payloads are kept as byte counts in the connection part (the handlers    *)
(* only read len(data)); the frame buffer part works on real byte strings.  *)
(***************************************************************************)
EXTENDS Integers, Sequences, FiniteSets, TLC

VARIABLES
    config,                       \* H2Configuration: client_side and the policy switches
    conn_state,                   \* H2Connection.state_machine.state
    local_enable_push,            \* H2Connection.local_settings.enable_push
    streams,                      \* H2Connection.streams: stream id -> H2Stream
    highest_inbound_stream_id,    \* H2Connection.highest_inbound_stream_id
    highest_outbound_stream_id,   \* H2Connection.highest_outbound_stream_id
    closed_streams,               \* H2Connection._closed_streams, oldest first
    header_frames,                \* H2Connection._header_frames
    data_to_send,                 \* H2Connection._data_to_send, one entry per queued item
    outbound_flow_control_window, \* H2Connection.outbound_flow_control_window
    inbound_window,               \* _inbound_flow_control_window_manager.current_window_size
    incoming_buffer,              \* H2Connection.incoming_buffer: data, preamble, preamble_len
    wire,                         \* the bytes the peer sends, in order
    fed,                          \* how many bytes of wire were handed to add_data so far
    yielded,                      \* the frames __next__ returned so far
    discarded,                    \* the bytes add_data took off as preamble so far
    ndata,                        \* how many DATA frames were sent or received so far
    ledger,                       \* the increments received on stream 0 and the sizes
                                  \* send_data charged so far, each summed
    last                          \* the last call: its arguments and what it returned or raised

conn_vars == <<config, conn_state, local_enable_push, streams,
               highest_inbound_stream_id, highest_outbound_stream_id,
               closed_streams, header_frames, data_to_send,
               outbound_flow_control_window, inbound_window>>

buf_vars == <<incoming_buffer, wire, fed, yielded, discarded>>

vars == <<conn_vars, buf_vars, ndata, ledger, last>>

----------------------------------------------------------------------------
(* The stream ids of the model: the connection's own id 0, a client-initiated *)
(* (odd) id and a server-pushed (even) id                                     *)

StreamIds == {0, 1, 2}

----------------------------------------------------------------------------
(* The connection state machine *)

ConnectionState == {"IDLE", "CLIENT_OPEN", "SERVER_OPEN", "CLOSED"}

ConnectionInputs ==
    {"SEND_HEADERS", "SEND_PUSH_PROMISE", "SEND_DATA", "SEND_GOAWAY",
     "SEND_WINDOW_UPDATE", "SEND_PING", "SEND_SETTINGS", "SEND_RST_STREAM",
     "SEND_PRIORITY", "RECV_HEADERS", "RECV_PUSH_PROMISE", "RECV_DATA",
     "RECV_GOAWAY", "RECV_WINDOW_UPDATE", "RECV_PING", "RECV_SETTINGS",
     "RECV_RST_STREAM", "RECV_PRIORITY", "SEND_ALTERNATIVE_SERVICE",
     "RECV_ALTERNATIVE_SERVICE"}

\* the four inputs the override lets through
RelaxedInputs == {"SEND_DATA", "RECV_DATA", "SEND_HEADERS", "RECV_HEADERS"}

\* H2ConnectionStateMachine._transitions of the base class: the target state
\* of (state, input), or "INVALID" when the pair is not in the table
ConnTransition(s, i) ==
    CASE s = "IDLE" ->
            IF i \in {"SEND_HEADERS"} THEN "CLIENT_OPEN"
            ELSE IF i \in {"RECV_HEADERS"} THEN "SERVER_OPEN"
            ELSE IF i \in {"SEND_SETTINGS", "RECV_SETTINGS", "SEND_WINDOW_UPDATE",
                           "RECV_WINDOW_UPDATE", "SEND_PING", "RECV_PING",
                           "SEND_PRIORITY", "RECV_PRIORITY"} THEN "IDLE"
            ELSE IF i \in {"SEND_GOAWAY", "RECV_GOAWAY"} THEN "CLOSED"
            ELSE IF i = "SEND_ALTERNATIVE_SERVICE" THEN "SERVER_OPEN"
            ELSE IF i = "RECV_ALTERNATIVE_SERVICE" THEN "CLIENT_OPEN"
            ELSE "INVALID"
      [] s = "CLIENT_OPEN" ->
            IF i \in {"SEND_HEADERS", "SEND_DATA", "SEND_WINDOW_UPDATE", "SEND_PING",
                      "SEND_SETTINGS", "SEND_PRIORITY", "RECV_HEADERS",
                      "RECV_PUSH_PROMISE", "RECV_DATA", "RECV_WINDOW_UPDATE",
                      "RECV_PING", "RECV_SETTINGS", "SEND_RST_STREAM",
                      "RECV_RST_STREAM", "RECV_PRIORITY",
                      "RECV_ALTERNATIVE_SERVICE"} THEN "CLIENT_OPEN"
            ELSE IF i \in {"SEND_GOAWAY", "RECV_GOAWAY"} THEN "CLOSED"
            ELSE "INVALID"
      [] s = "SERVER_OPEN" ->
            IF i \in {"SEND_HEADERS", "SEND_PUSH_PROMISE", "SEND_DATA",
                      "SEND_WINDOW_UPDATE", "SEND_PING", "SEND_SETTINGS",
                      "SEND_PRIORITY", "RECV_HEADERS", "RECV_DATA",
                      "RECV_WINDOW_UPDATE", "RECV_PING", "RECV_SETTINGS",
                      "RECV_PRIORITY", "SEND_RST_STREAM", "RECV_RST_STREAM",
                      "SEND_ALTERNATIVE_SERVICE",
                      "RECV_ALTERNATIVE_SERVICE"} THEN "SERVER_OPEN"
            ELSE IF i \in {"SEND_GOAWAY", "RECV_GOAWAY"} THEN "CLOSED"
            ELSE "INVALID"
      [] OTHER ->
            IF i \in {"SEND_GOAWAY", "RECV_GOAWAY"} THEN "CLOSED" ELSE "INVALID"

\* H2ConnectionStateMachine.process_input of the base class: a pair missing
\* from the table closes the connection and raises ProtocolError
super_process_input(s, i) ==
    IF ConnTransition(s, i) = "INVALID"
    THEN [state |-> "CLOSED", err |-> "ProtocolError", events |-> <<>>]
    ELSE [state |-> ConnTransition(s, i), err |-> "none", events |-> <<>>]

\* a variant that lets the four inputs through in every state
process_input_any_state(s, i) ==
    IF i \in RelaxedInputs
    THEN [state |-> s, err |-> "none", events |-> <<>>]
    ELSE super_process_input(s, i)

\* the state machine of h2, without the override
process_input_strict(s, i) == super_process_input(s, i)

\* H2ConnectionStateMachineOverride.process_input
process_input(s, i) ==
    IF s = "IDLE" /\ i \in RelaxedInputs
    THEN [state |-> s, err |-> "none", events |-> <<>>]
    ELSE super_process_input(s, i)

----------------------------------------------------------------------------
(* The stream state machine (h2.stream.H2StreamStateMachine), for the inputs *)
(* the modelled connection operations feed it                                *)

StreamState == {"IDLE", "RESERVED_REMOTE", "RESERVED_LOCAL", "OPEN",
                "HALF_CLOSED_REMOTE", "HALF_CLOSED_LOCAL", "CLOSED"}

\* Settings(...).initial_window_size of both peers when the connection is built
InitialWindowSize == 65535

\* a stream as H2Stream(...) builds it: idle, closed by nobody
NewStream(sid) ==
    [id |-> sid, state |-> "IDLE", closed_by |-> "None", client |-> "None",
     headers_sent |-> FALSE, trailers_sent |-> FALSE,
     out_window |-> InitialWindowSize, in_window |-> InitialWindowSize,
     headers_received |-> FALSE, trailers_received |-> FALSE]

StreamOk(st, events) == [stream |-> st, err |-> "none", events |-> events]

\* a callback that raised: process_input leaves the stream CLOSED
StreamErr(st, e) == [stream |-> [st EXCEPT !.state = "CLOSED"], err |-> e, events |-> <<>>]

\* H2StreamStateMachine.response_sent (and the trailers it stands for)
response_sent(st, target) ==
    IF ~st.headers_sent
    THEN IF st.client \in {"True", "None"}
         THEN StreamErr(st, "ProtocolError")
         ELSE StreamOk([st EXCEPT !.state = target, !.headers_sent = TRUE],
                       <<[type |-> "_ResponseSent"]>>)
    ELSE IF st.trailers_sent
         THEN StreamErr(st, "ProtocolError")        \* the failed assertion
         ELSE StreamOk([st EXCEPT !.state = target, !.trailers_sent = TRUE],
                       <<[type |-> "_TrailersSent"]>>)

\* H2StreamStateMachine.request_received
request_received(st, sid) ==
    IF st.headers_received \/ st.trailers_received
    THEN StreamErr(st, "ProtocolError")            \* the failed assertion
    ELSE StreamOk([st EXCEPT !.state = "OPEN", !.client = "False",
                             !.headers_received = TRUE],
                  <<[type |-> "RequestReceived", stream_id |-> sid]>>)

\* H2StreamStateMachine.response_received: the first block of headers is the
\* response, the second the trailers, and a third fails the assertion
response_received(st, sid, target) ==
    IF ~st.headers_received
    THEN IF st.client # "True"
         THEN StreamErr(st, "ProtocolError")        \* the failed assertion
         ELSE StreamOk([st EXCEPT !.state = target, !.headers_received = TRUE],
                       <<[type |-> "ResponseReceived", stream_id |-> sid]>>)
    ELSE IF st.trailers_received
         THEN StreamErr(st, "ProtocolError")        \* the failed assertion
         ELSE StreamOk([st EXCEPT !.state = target, !.trailers_received = TRUE],
                       <<[type |-> "TrailersReceived", stream_id |-> sid]>>)

\* H2StreamStateMachine.recv_push_promise
recv_push_promise(st, sid, target) ==
    IF st.client # "True"
    THEN StreamErr(st, "ProtocolError")
    ELSE StreamOk([st EXCEPT !.state = target],
                  <<[type |-> "PushedStreamReceived", parent_stream_id |-> sid]>>)

\* H2StreamStateMachine.recv_push_on_closed_stream
recv_push_on_closed_stream(st) ==
    IF st.closed_by = "SEND_RST_STREAM"
    THEN StreamErr(st, "StreamClosedError")
    ELSE StreamErr(st, "ProtocolError")

\* H2StreamStateMachine.window_on_closed_stream: a frame that follows our own
\* END_STREAM is ignored; any other closed stream refuses it, and a stream
\* closed by nobody fails the assertion, which process_input raises as
\* ProtocolError
window_on_closed_stream(st) ==
    IF st.closed_by = "None" THEN StreamErr(st, "ProtocolError")
    ELSE IF st.closed_by = "SEND_END_STREAM" THEN StreamOk(st, <<>>)
    ELSE StreamErr(st, "StreamClosedError")

\* H2StreamStateMachine.reset_on_closed_stream: as for WINDOW_UPDATE
reset_on_closed_stream(st) ==
    IF st.closed_by = "None" THEN StreamErr(st, "ProtocolError")
    ELSE IF st.closed_by = "SEND_END_STREAM" THEN StreamOk(st, <<>>)
    ELSE StreamErr(st, "StreamClosedError")

\* H2StreamStateMachine.process_input: the transition of (state, input), its
\* callback run; a pair missing from the table closes the stream and raises
stream_process_input(st, sid, input) ==
    LET s == st.state
        reset(by, ev) == StreamOk([st EXCEPT !.state = "CLOSED", !.closed_by = by], ev)
    IN
    CASE input = "SEND_HEADERS" ->
            IF s = "IDLE"
            THEN StreamOk([st EXCEPT !.state = "OPEN", !.client = "True",
                                     !.headers_sent = TRUE],
                          <<[type |-> "_RequestSent"]>>)
            ELSE IF s = "RESERVED_LOCAL" THEN response_sent(st, "HALF_CLOSED_REMOTE")
            ELSE IF s \in {"OPEN", "HALF_CLOSED_REMOTE"} THEN response_sent(st, s)
            ELSE IF s = "CLOSED" THEN StreamErr(st, "StreamClosedError")
            ELSE StreamErr(st, "ProtocolError")
      [] input = "SEND_END_STREAM" ->
            IF s = "OPEN" THEN StreamOk([st EXCEPT !.state = "HALF_CLOSED_LOCAL"], <<>>)
            ELSE IF s = "HALF_CLOSED_REMOTE" THEN reset("SEND_END_STREAM", <<>>)
            ELSE IF s = "CLOSED" THEN StreamErr(st, "StreamClosedError")
            ELSE StreamErr(st, "ProtocolError")
      [] input = "SEND_RST_STREAM" ->
            IF s = "IDLE" THEN StreamErr(st, "ProtocolError")
            ELSE IF s = "CLOSED" THEN StreamErr(st, "StreamClosedError")
            ELSE reset("SEND_RST_STREAM", <<>>)
      [] input = "RECV_RST_STREAM" ->
            IF s = "IDLE" THEN StreamErr(st, "ProtocolError")
            ELSE IF s = "CLOSED" THEN reset_on_closed_stream(st)
            ELSE reset("RECV_RST_STREAM",
                       <<[type |-> "StreamReset", stream_id |-> sid]>>)
      [] input = "RECV_PUSH_PROMISE" ->
            IF s = "IDLE"
            THEN StreamOk([st EXCEPT !.state = "RESERVED_REMOTE", !.client = "True"], <<>>)
            ELSE IF s \in {"OPEN", "HALF_CLOSED_LOCAL"} THEN recv_push_promise(st, sid, s)
            ELSE IF s = "HALF_CLOSED_REMOTE"
                 THEN StreamErr([st EXCEPT !.closed_by = "SEND_RST_STREAM"],
                                "StreamClosedError")
            ELSE IF s = "CLOSED" THEN recv_push_on_closed_stream(st)
            ELSE StreamErr(st, "ProtocolError")
      [] input = "RECV_WINDOW_UPDATE" ->
            IF s = "IDLE" THEN StreamErr(st, "ProtocolError")
            ELSE IF s = "CLOSED" THEN window_on_closed_stream(st)
            ELSE StreamOk(st, <<[type |-> "WindowUpdated", stream_id |-> sid]>>)
      [] input = "RECV_HEADERS" ->
            IF s = "IDLE" THEN request_received(st, sid)
            ELSE IF s = "RESERVED_REMOTE"
                 THEN response_received(st, sid, "HALF_CLOSED_LOCAL")
            ELSE IF s \in {"OPEN", "HALF_CLOSED_LOCAL"}
                 THEN response_received(st, sid, s)
            ELSE IF s = "HALF_CLOSED_REMOTE"
                 THEN StreamErr([st EXCEPT !.closed_by = "SEND_RST_STREAM"],
                                "StreamClosedError")
            ELSE IF s = "CLOSED" THEN StreamErr(st, "StreamClosedError")
            ELSE StreamErr(st, "ProtocolError")
      [] OTHER -> StreamErr(st, "ProtocolError")

----------------------------------------------------------------------------
(* The stream table of the connection: a dict, kept in insertion order *)

Ids(tbl) == {tbl[k].id : k \in 1..Len(tbl)}

Get(tbl, sid) == tbl[CHOOSE k \in 1..Len(tbl) : tbl[k].id = sid]

\* dict.__setitem__: an old key keeps its place, a new key goes last
Put(tbl, st) ==
    IF st.id \in Ids(tbl)
    THEN [k \in 1..Len(tbl) |-> IF tbl[k].id = st.id THEN st ELSE tbl[k]]
    ELSE Append(tbl, st)

\* H2Connection._stream_id_is_outbound
stream_id_is_outbound(sid) == (sid % 2) = (IF config.client_side THEN 1 ELSE 0)

\* H2Connection.MAX_CLOSED_STREAMS as the model keeps it: the records kept
MaxClosedStreams == 1

\* SizeLimitDict._check_size_limit: the oldest entries go once the limit is passed
RECURSIVE check_size_limit(_)
check_size_limit(cs) ==
    IF Len(cs) > MaxClosedStreams THEN check_size_limit(Tail(cs)) ELSE cs

\* SizeLimitDict.__setitem__
ClosedSet(cs, sid, by) ==
    check_size_limit(Put(cs, [id |-> sid, by |-> by]))

IsClosed(st) == st.state = "CLOSED"

\* H2Connection._open_streams: every closed stream leaves the table, in the
\* table's order, and its closure reason goes to _closed_streams
RECURSIVE PurgedClosed(_, _)
PurgedClosed(tbl, cs) ==
    IF tbl = <<>> THEN cs
    ELSE PurgedClosed(Tail(tbl),
                      IF IsClosed(Head(tbl))
                      THEN ClosedSet(cs, Head(tbl).id, Head(tbl).closed_by)
                      ELSE cs)

PurgedTable(tbl) == SelectSeq(tbl, LAMBDA st : ~IsClosed(st))

\* H2Connection._get_stream_by_id: the error it raises, "none" when the
\* stream is in the table
get_stream_by_id_err(tbl, hi_in, hi_out, sid) ==
    IF sid \in Ids(tbl) THEN "none"
    ELSE IF sid > (IF stream_id_is_outbound(sid) THEN hi_out ELSE hi_in)
         THEN "NoSuchStreamError"
         ELSE "StreamClosedError"

\* H2Connection._stream_closed_by
stream_closed_by(tbl, cs, sid) ==
    IF sid \in Ids(tbl) THEN Get(tbl, sid).closed_by
    ELSE IF sid \in Ids(cs) THEN Get(cs, sid).by
    ELSE "None"

\* new_begin_new_stream: the table and the two highest ids after it
begin_new_stream(tbl, hi_in, hi_out, sid) ==
    [streams |-> Put(tbl, NewStream(sid)),
     hi_in   |-> IF stream_id_is_outbound(sid) THEN hi_in ELSE sid,
     hi_out  |-> IF stream_id_is_outbound(sid) THEN sid ELSE hi_out]

----------------------------------------------------------------------------
(* The connection as one value, and what a call gives back *)

Conn ==
    [config |-> config,
     state |-> conn_state, enable_push |-> local_enable_push, streams |-> streams,
     hi_in |-> highest_inbound_stream_id, hi_out |-> highest_outbound_stream_id,
     closed |-> closed_streams, header_frames |-> header_frames,
     out_q |-> data_to_send, out_window |-> outbound_flow_control_window,
     in_window |-> inbound_window]

\* a call that returned (frames, events), and a call that raised e
Ret(c, frames, events) == [c |-> c, err |-> "none", frames |-> frames, events |-> events]

Raise(c, e) == [c |-> c, err |-> e, frames |-> <<>>, events |-> <<>>]

\* the length of either client connection preface
PrefaceLen == 24

\* one item of _data_to_send: a serialized frame (its header fields, then the
\* lengths of the parts of its body) or a connection preface; the stream ids
\* of the model are below 2^31, where the mask of the header leaves them alone
Wire(type, flags, sid, prefix, payload, padding) ==
    [type |-> type, flags |-> flags, stream_id |-> sid,
     length |-> prefix + payload + padding,
     payload |-> payload, padding |-> padding]

\* DataFrame.serialize: the pad-length byte when PADDED, the data, the padding
serialize_data(df) ==
    Wire("DATA", df.flags, df.stream_id,
         IF "PADDED" \in df.flags THEN 1 ELSE 0, df.data_len, df.pad_length)

----------------------------------------------------------------------------
(* The outbound window of the connection. It is a Python int, which has no   *)
(* width, and the module never tests it against a limit, so it is held as    *)
(* [laps, rest], which stands for laps * LargestWindow + rest with           *)
(* 0 <= rest < LargestWindow. The amounts added and taken are between 0 and  *)
(* LargestWindow.                                                            *)

\* LARGEST_FLOW_CONTROL_WINDOW of h2.windows
LargestWindow == 2147483647

\* the int n, for -LargestWindow <= n <= LargestWindow
Whole(n) ==
    IF n < 0 THEN [laps |-> -1, rest |-> LargestWindow + n]
    ELSE IF n = LargestWindow THEN [laps |-> 1, rest |-> 0]
    ELSE [laps |-> 0, rest |-> n]

\* w + n
Plus(w, n) ==
    IF n >= LargestWindow - w.rest
    THEN [laps |-> w.laps + 1, rest |-> w.rest - (LargestWindow - n)]
    ELSE [laps |-> w.laps, rest |-> w.rest + n]

\* w - n
Minus(w, n) ==
    IF w.rest >= n
    THEN [laps |-> w.laps, rest |-> w.rest - n]
    ELSE [laps |-> w.laps - 1, rest |-> w.rest + (LargestWindow - n)]

\* a < b
Below(a, b) == a.laps < b.laps \/ (a.laps = b.laps /\ a.rest < b.rest)

----------------------------------------------------------------------------
(* send_data and the receipt of DATA *)

\* a send_data that charges the window for the data only
send_data_unpadded_charge(c, sid, n, end_stream, pad) ==
    IF pad # <<>> /\ (pad[1] < 0 \/ pad[1] > 255)
    THEN Raise(c, "ValueError")
    ELSE LET df == [stream_id |-> sid, data_len |-> n,
                    flags |-> (IF end_stream THEN {"END_STREAM"} ELSE {})
                              \cup (IF pad # <<>> THEN {"PADDED"} ELSE {}),
                    pad_length |-> IF pad # <<>> THEN pad[1] ELSE 0]
         IN Ret([c EXCEPT !.out_q = Append(@, serialize_data(df)),
                          !.out_window = Minus(@, n)],
                <<>>, <<>>)

\* a send_data that refuses to send past the end of the window
send_data_checked(c, sid, n, end_stream, pad) ==
    IF pad # <<>> /\ (pad[1] < 0 \/ pad[1] > 255)
    THEN Raise(c, "ValueError")
    ELSE LET frame_size == n + (IF pad # <<>> THEN pad[1] + 1 ELSE 0)
             df == [stream_id |-> sid, data_len |-> n,
                    flags |-> (IF end_stream THEN {"END_STREAM"} ELSE {})
                              \cup (IF pad # <<>> THEN {"PADDED"} ELSE {}),
                    pad_length |-> IF pad # <<>> THEN pad[1] ELSE 0]
         IN IF Below(c.out_window, Whole(frame_size))
            THEN Raise(c, "FlowControlError")
            ELSE Ret([c EXCEPT !.out_q = Append(@, serialize_data(df)),
                               !.out_window = Minus(@, frame_size)],
                     <<>>, <<>>)

\* a send_data that, as h2's own, closes the sending side of an open stream
\* when end_stream is set
send_data_ending_stream(c, sid, n, end_stream, pad) ==
    IF pad # <<>> /\ (pad[1] < 0 \/ pad[1] > 255)
    THEN Raise(c, "ValueError")
    ELSE LET frame_size == n + (IF pad # <<>> THEN pad[1] + 1 ELSE 0)
             df == [stream_id |-> sid, data_len |-> n,
                    flags |-> (IF end_stream THEN {"END_STREAM"} ELSE {})
                              \cup (IF pad # <<>> THEN {"PADDED"} ELSE {}),
                    pad_length |-> IF pad # <<>> THEN pad[1] ELSE 0]
             ended == IF end_stream /\ sid \in Ids(c.streams)
                         /\ Get(c.streams, sid).state = "OPEN"
                      THEN Put(c.streams,
                               [Get(c.streams, sid) EXCEPT !.state = "HALF_CLOSED_LOCAL"])
                      ELSE c.streams
         IN Ret([c EXCEPT !.streams = ended,
                          !.out_q = Append(@, serialize_data(df)),
                          !.out_window = Minus(@, frame_size)],
                <<>>, <<>>)

\* a send_data that looks at pad_length only after the frame is queued and
\* the window charged
send_data_validating_late(c, sid, n, end_stream, pad) ==
    LET frame_size == n + (IF pad # <<>> THEN pad[1] + 1 ELSE 0)
        df == [stream_id |-> sid, data_len |-> n,
               flags |-> (IF end_stream THEN {"END_STREAM"} ELSE {})
                         \cup (IF pad # <<>> THEN {"PADDED"} ELSE {}),
               pad_length |-> IF pad # <<>> THEN pad[1] ELSE 0]
        sent == [c EXCEPT !.out_q = Append(@, serialize_data(df)),
                          !.out_window = Minus(@, frame_size)]
    IN IF pad # <<>> /\ (pad[1] < 0 \/ pad[1] > 255)
       THEN Raise(sent, "ValueError")
       ELSE Ret(sent, <<>>, <<>>)

\* new_send_data; pad is <<>> for pad_length=None and <<k>> for pad_length=k;
\* the call returns nothing, which is kept as no frames and no events
new_send_data(c, sid, n, end_stream, pad) ==
    IF pad # <<>> /\ (pad[1] < 0 \/ pad[1] > 255)
    THEN Raise(c, "ValueError")
    ELSE LET frame_size == n + (IF pad # <<>> THEN pad[1] + 1 ELSE 0)
             df == [stream_id |-> sid, data_len |-> n,
                    flags |-> (IF end_stream THEN {"END_STREAM"} ELSE {})
                              \cup (IF pad # <<>> THEN {"PADDED"} ELSE {}),
                    pad_length |-> IF pad # <<>> THEN pad[1] ELSE 0]
         IN Ret([c EXCEPT !.out_q = Append(@, serialize_data(df)),
                          !.out_window = Minus(@, frame_size)],
                <<>>, <<>>)

\* WindowManager.window_consumed: the window after it, and whether it raised
window_consumed(w, size) ==
    [window |-> w - size,
     err |-> IF w - size < 0 THEN "FlowControlError" ELSE "none"]

\* a receipt of DATA that never touches the window manager
receive_data_frame_unmetered(c, frame) ==
    Ret(c, <<>>, <<[type |-> "DataReceived"]>>)

\* new_receive_data_frame; frame.pad_length is 0 on a frame without padding
new_receive_data_frame(c, frame) ==
    LET flow_controlled_length ==
            IF frame.pad_length # 0
            THEN frame.data_len + frame.pad_length + 1
            ELSE frame.data_len
        w == window_consumed(c.in_window, flow_controlled_length)
        c1 == [c EXCEPT !.in_window = w.window]
    IN IF w.err # "none" THEN Raise(c1, w.err)
       ELSE Ret(c1, <<>>, <<[type |-> "DataReceived"]>>)

----------------------------------------------------------------------------
(* Operations of the connection that the engine keeps from h2 unchanged *)

\* H2Connection.send_headers: purge closed streams when the id is new, feed
\* SEND_HEADERS, get or create the stream, H2Stream.send_headers, queue HEADERS
send_headers(c, sid, end_stream) ==
    LET c0 == IF sid \in Ids(c.streams) THEN c
              ELSE [c EXCEPT !.streams = PurgedTable(c.streams),
                             !.closed = PurgedClosed(c.streams, c.closed)]
        sm == process_input(c0.state, "SEND_HEADERS")
        c1 == [c0 EXCEPT !.state = sm.state]
        nw == begin_new_stream(c1.streams, c1.hi_in, c1.hi_out, sid)
        c2 == IF sid \in Ids(c1.streams) THEN c1
              ELSE [c1 EXCEPT !.streams = nw.streams, !.hi_in = nw.hi_in,
                              !.hi_out = nw.hi_out]
        r1 == stream_process_input(Get(c2.streams, sid), sid, "SEND_HEADERS")
        r2 == IF end_stream
              THEN stream_process_input(r1.stream, sid, "SEND_END_STREAM")
              ELSE StreamOk(r1.stream, <<>>)
        hf == Wire("HEADERS",
                   {"END_HEADERS"} \cup (IF end_stream THEN {"END_STREAM"} ELSE {}),
                   sid, 0, 1, 0)
    IN IF sm.err # "none" THEN Raise(c1, sm.err)
       ELSE IF r1.err # "none" THEN Raise([c2 EXCEPT !.streams = Put(@, r1.stream)], r1.err)
       ELSE IF r2.err # "none" THEN Raise([c2 EXCEPT !.streams = Put(@, r2.stream)], r2.err)
       ELSE IF r2.stream.trailers_sent /\ ~end_stream
            THEN Raise([c2 EXCEPT !.streams = Put(@, r2.stream)], "ProtocolError")
       ELSE Ret([c2 EXCEPT !.streams = Put(@, r2.stream), !.out_q = Append(@, hf)],
                <<>>, <<>>)

\* new_receive_headers, the receive_headers of every stream. H2Stream has
\* neither a _receive_headers_events nor a _receive_headers method, so the
\* call ends in AttributeError: in HALF_CLOSED_LOCAL once RECV_HEADERS has
\* been fed to the stream's state machine, in any other state at once.
\* end_stream is read on neither path.
new_receive_headers(st, sid, end_stream) ==
    IF st.state = "HALF_CLOSED_LOCAL"
    THEN LET r == stream_process_input(st, sid, "RECV_HEADERS")
         IN IF r.err # "none" THEN r
            ELSE [stream |-> r.stream, err |-> "AttributeError", events |-> <<>>]
    ELSE [stream |-> st, err |-> "AttributeError", events |-> <<>>]

\* H2Connection._receive_headers_frame: purge closed streams when the id is
\* new, feed RECV_HEADERS, get or create the stream, stream.receive_headers
receive_headers_frame(c, sid, end_stream) ==
    LET c0 == IF sid \in Ids(c.streams) THEN c
              ELSE [c EXCEPT !.streams = PurgedTable(c.streams),
                             !.closed = PurgedClosed(c.streams, c.closed)]
        sm == process_input(c0.state, "RECV_HEADERS")
        c1 == [c0 EXCEPT !.state = sm.state]
        nw == begin_new_stream(c1.streams, c1.hi_in, c1.hi_out, sid)
        c2 == IF sid \in Ids(c1.streams) THEN c1
              ELSE [c1 EXCEPT !.streams = nw.streams, !.hi_in = nw.hi_in,
                              !.hi_out = nw.hi_out]
        r == new_receive_headers(Get(c2.streams, sid), sid, end_stream)
    IN IF sm.err # "none" THEN Raise(c1, sm.err)
       ELSE IF r.err # "none" THEN Raise([c2 EXCEPT !.streams = Put(@, r.stream)], r.err)
       ELSE Ret([c2 EXCEPT !.streams = Put(@, r.stream)], <<>>, r.events)

\* H2Connection.reset_stream: feed SEND_RST_STREAM, look the stream up,
\* H2Stream.reset_stream, queue RST_STREAM
reset_stream(c, sid) ==
    LET sm == process_input(c.state, "SEND_RST_STREAM")
        c1 == [c EXCEPT !.state = sm.state]
        e  == get_stream_by_id_err(c1.streams, c1.hi_in, c1.hi_out, sid)
        r  == stream_process_input(Get(c1.streams, sid), sid, "SEND_RST_STREAM")
        rf == Wire("RST_STREAM", {}, sid, 0, 4, 0)
    IN IF sm.err # "none" THEN Raise(c1, sm.err)
       ELSE IF e # "none" THEN Raise(c1, e)
       ELSE IF r.err # "none" THEN Raise([c1 EXCEPT !.streams = Put(@, r.stream)], r.err)
       ELSE Ret([c1 EXCEPT !.streams = Put(@, r.stream), !.out_q = Append(@, rf)],
                <<>>, <<>>)

\* H2Connection._receive_alt_svc_frame for a frame on stream 0 with no origin
receive_alt_svc_frame(c) ==
    LET sm == process_input(c.state, "RECV_ALTERNATIVE_SERVICE")
    IN IF sm.err # "none" THEN Raise([c EXCEPT !.state = sm.state], sm.err)
       ELSE Ret([c EXCEPT !.state = sm.state], <<>>, <<>>)

\* H2Connection._receive_goaway_frame: the queue is dropped
receive_goaway_frame(c) ==
    LET sm == process_input(c.state, "RECV_GOAWAY")
    IN Ret([c EXCEPT !.state = sm.state, !.out_q = <<>>],
           <<>>, <<[type |-> "ConnectionTerminated"]>>)

\* H2Connection.clear_outbound_data_buffer, as the transport calls it once
\* the queue is written out
clear_outbound_data_buffer(c) == Ret([c EXCEPT !.out_q = <<>>], <<>>, <<>>)

\* H2Connection.update_settings({ENABLE_PUSH: v}) once the peer acknowledged it
local_settings_acked(c, v) == Ret([c EXCEPT !.enable_push = v], <<>>, <<>>)

----------------------------------------------------------------------------
(* RST_STREAM, PUSH_PROMISE and CONTINUATION receipt *)

\* ErrorCodes.REFUSED_STREAM
REFUSED_STREAM == 7

\* H2Connection._receive_rst_stream_frame of h2: RECV_RST_STREAM goes to the
\* connection state machine, and a stream that is missing is passed over
receive_rst_stream_frame_h2(c, sid) ==
    LET sm == process_input(c.state, "RECV_RST_STREAM")
        c1 == [c EXCEPT !.state = sm.state]
        e  == get_stream_by_id_err(c1.streams, c1.hi_in, c1.hi_out, sid)
        r  == stream_process_input(Get(c1.streams, sid), sid, "RECV_RST_STREAM")
    IN IF sm.err # "none" THEN Raise(c1, sm.err)
       ELSE IF e # "none" THEN Ret(c1, <<>>, <<>>)
       ELSE IF r.err # "none"
            THEN Raise([c1 EXCEPT !.streams = Put(@, r.stream)], r.err)
       ELSE Ret([c1 EXCEPT !.streams = Put(@, r.stream)], <<>>, r.events)

\* new_receive_rst_stream_frame
new_receive_rst_stream_frame(c, sid) ==
    IF sid = 0
    THEN Ret(c, <<>>, <<[type |-> "StreamReset", stream_id |-> 0]>>)
    ELSE LET e == get_stream_by_id_err(c.streams, c.hi_in, c.hi_out, sid)
             r == stream_process_input(Get(c.streams, sid), sid, "RECV_RST_STREAM")
         IN IF e # "none" THEN Raise(c, e)
            ELSE IF r.err # "none"
                 THEN Raise([c EXCEPT !.streams = Put(@, r.stream)], r.err)
            ELSE Ret([c EXCEPT !.streams = Put(@, r.stream)], <<>>, r.events)

\* ErrorCodes.FLOW_CONTROL_ERROR
FLOW_CONTROL_ERROR == 3

\* H2Stream.receive_window_update: the stream's window grows by the
\* increment; guard_increment_window refuses a window past the largest, and
\* the stream is then reset locally
stream_receive_window_update(st, increment) ==
    LET r  == stream_process_input(st, st.id, "RECV_WINDOW_UPDATE")
        rs == stream_process_input(r.stream, st.id, "SEND_RST_STREAM")
        out(stream, err, frames, events) ==
            [stream |-> stream, err |-> err, frames |-> frames, events |-> events]
    IN IF r.err # "none" THEN out(r.stream, r.err, <<>>, <<>>)
       ELSE IF r.events = <<>> THEN out(r.stream, "none", <<>>, <<>>)
       ELSE IF increment > LargestWindow - r.stream.out_window
            THEN out(rs.stream, rs.err,
                     <<Wire("RST_STREAM", {}, st.id, 0, 4, 0)>>,
                     <<[type |-> "StreamReset", stream_id |-> st.id,
                        error_code |-> FLOW_CONTROL_ERROR,
                        remote_reset |-> FALSE]>>)
       ELSE out([r.stream EXCEPT !.out_window = @ + increment], "none", <<>>,
                <<[type |-> "WindowUpdated", stream_id |-> st.id,
                   delta |-> increment]>>)

\* a receipt of WINDOW_UPDATE that guards the connection's window as h2's
\* guard_increment_window does, and refuses to take it past the largest value
receive_window_update_frame_guarded(c, sid, increment) ==
    LET sm == process_input(c.state, "RECV_WINDOW_UPDATE")
        c1 == [c EXCEPT !.state = sm.state]
        e  == get_stream_by_id_err(c1.streams, c1.hi_in, c1.hi_out, sid)
        r  == stream_receive_window_update(Get(c1.streams, sid), increment)
        c2 == [c1 EXCEPT !.streams = Put(@, r.stream)]
    IN IF sm.err # "none" THEN Raise(c1, sm.err)
       ELSE IF sid = 0
            THEN IF Below(Whole(LargestWindow), Plus(c1.out_window, increment))
                 THEN Raise(c1, "FlowControlError")
                 ELSE Ret([c1 EXCEPT !.out_window = Plus(@, increment)], <<>>,
                          sm.events \o <<[type |-> "WindowUpdated",
                                          stream_id |-> 0,
                                          delta |-> increment]>>)
       ELSE IF e = "StreamClosedError" THEN Ret(c1, <<>>, sm.events)
       ELSE IF e # "none" THEN Raise(c1, e)
       ELSE IF r.err = "StreamClosedError" THEN Ret(c2, <<>>, sm.events)
       ELSE IF r.err # "none" THEN Raise(c2, r.err)
       ELSE Ret(c2, r.frames, sm.events \o r.events)

\* a receipt of WINDOW_UPDATE that lets StreamClosedError through
receive_window_update_frame_uncaught(c, sid, increment) ==
    LET sm == process_input(c.state, "RECV_WINDOW_UPDATE")
        c1 == [c EXCEPT !.state = sm.state]
        e  == get_stream_by_id_err(c1.streams, c1.hi_in, c1.hi_out, sid)
        r  == stream_receive_window_update(Get(c1.streams, sid), increment)
        c2 == [c1 EXCEPT !.streams = Put(@, r.stream)]
    IN IF sm.err # "none" THEN Raise(c1, sm.err)
       ELSE IF sid = 0
            THEN Ret([c1 EXCEPT !.out_window = Plus(@, increment)], <<>>,
                     <<[type |-> "WindowUpdated", stream_id |-> 0,
                        delta |-> increment]>>)
       ELSE IF e # "none" THEN Raise(c1, e)
       ELSE IF r.err # "none" THEN Raise(c2, r.err)
       ELSE Ret(c2, r.frames, r.events)

\* new_receive_window_update_frame
new_receive_window_update_frame(c, sid, increment) ==
    LET sm == process_input(c.state, "RECV_WINDOW_UPDATE")
        c1 == [c EXCEPT !.state = sm.state]
        e  == get_stream_by_id_err(c1.streams, c1.hi_in, c1.hi_out, sid)
        r  == stream_receive_window_update(Get(c1.streams, sid), increment)
        c2 == [c1 EXCEPT !.streams = Put(@, r.stream)]
    IN IF sm.err # "none" THEN Raise(c1, sm.err)
       ELSE IF sid = 0
            THEN Ret([c1 EXCEPT !.out_window = Plus(@, increment)], <<>>,
                     sm.events \o <<[type |-> "WindowUpdated", stream_id |-> 0,
                                     delta |-> increment]>>)
       ELSE IF e = "StreamClosedError" THEN Ret(c1, <<>>, sm.events)
       ELSE IF e # "none" THEN Raise(c1, e)
       ELSE IF r.err = "StreamClosedError" THEN Ret(c2, <<>>, sm.events)
       ELSE IF r.err # "none" THEN Raise(c2, r.err)
       ELSE Ret(c2, r.frames, sm.events \o r.events)

\* a receipt of PRIORITY that refuses a stream that depends on itself
receive_priority_frame_checked(c, frame) ==
    LET sm == process_input(c.state, "RECV_PRIORITY")
        c1 == [c EXCEPT !.state = sm.state]
    IN IF sm.err # "none" THEN Raise(c1, sm.err)
       ELSE IF frame.depends_on = frame.stream_id THEN Raise(c1, "ProtocolError")
       ELSE Ret(c1, <<>>,
                sm.events \o
                <<[type |-> "PriorityUpdated", stream_id |-> frame.stream_id,
                   depends_on |-> frame.depends_on,
                   exclusive |-> frame.exclusive,
                   weight |-> frame.stream_weight + 1]>>)

\* new_receive_priority_frame
new_receive_priority_frame(c, frame) ==
    LET sm == process_input(c.state, "RECV_PRIORITY")
        c1 == [c EXCEPT !.state = sm.state]
    IN IF sm.err # "none" THEN Raise(c1, sm.err)
       ELSE Ret(c1, <<>>,
                sm.events \o
                <<[type |-> "PriorityUpdated", stream_id |-> frame.stream_id,
                   depends_on |-> frame.depends_on,
                   exclusive |-> frame.exclusive,
                   weight |-> frame.stream_weight + 1]>>)

RstRefused(promised) ==
    [type |-> "RST_STREAM", stream_id |-> promised, error_code |-> REFUSED_STREAM]

\* H2Stream.receive_push_promise_in_band: the first event gets the pushed id;
\* an idle parent returns no event, and the indexing fails
receive_push_promise_in_band(st, promised) ==
    LET r == stream_process_input(st, st.id, "RECV_PUSH_PROMISE")
    IN IF r.err # "none" THEN r
       ELSE IF r.events = <<>> THEN [r EXCEPT !.err = "IndexError"]
       ELSE [r EXCEPT !.events =
                <<[type |-> "PushedStreamReceived", parent_stream_id |-> st.id,
                   pushed_stream_id |-> promised]>>]

\* new_receive_push_promise_frame once enable_push is known to be set
push_promise_with_push_enabled(c, sid, promised) ==
    LET parent == IF sid = 0 THEN 1 ELSE sid
        e == get_stream_by_id_err(c.streams, c.hi_in, c.hi_out, parent)
        r == receive_push_promise_in_band(Get(c.streams, parent), promised)
        c1 == [c EXCEPT !.streams = Put(@, r.stream)]
        nw == begin_new_stream(c1.streams, c1.hi_in, c1.hi_out, promised)
        pushed == stream_process_input(NewStream(promised), promised, "RECV_PUSH_PROMISE")
    IN IF e # "none"
       THEN IF stream_closed_by(c.streams, c.closed, sid) = "SEND_RST_STREAM"
            THEN Ret(c, <<RstRefused(promised)>>, <<>>)
            ELSE Raise(c, "ProtocolError")
       ELSE IF r.err = "StreamClosedError" THEN Ret(c1, <<RstRefused(promised)>>, <<>>)
       ELSE IF r.err # "none" THEN Raise(c1, r.err)
       ELSE Ret([c1 EXCEPT !.streams = Put(nw.streams, pushed.stream),
                           !.hi_in = nw.hi_in, !.hi_out = nw.hi_out],
                <<>>, r.events)

\* the handler with the enable_push test left out
receive_push_promise_frame_unchecked(c, sid, promised) ==
    push_promise_with_push_enabled(c, sid, promised)

\* new_receive_push_promise_frame
new_receive_push_promise_frame(c, sid, promised) ==
    IF c.enable_push = 0
    THEN Raise(c, "ProtocolError")
    ELSE push_promise_with_push_enabled(c, sid, promised)

\* H2Connection._receive_naked_continuation of h2: the stream is looked up
\* and refuses the frame
receive_naked_continuation_strict(c, frame) == Raise(c, "ProtocolError")

\* a handler that starts a header sequence with the frame it is given
receive_naked_continuation_collecting(c, frame) ==
    IF "END_HEADERS" \in frame.flags
    THEN Ret([c EXCEPT !.header_frames = <<>>], <<>>, <<>>)
    ELSE Ret([c EXCEPT !.header_frames = Append(@, frame)], <<>>, <<>>)

\* new_receive_naked_continuation
new_receive_naked_continuation(c, frame) ==
    IF c.header_frames = <<>>
    THEN Ret(c, <<>>, <<>>)
    ELSE IF "END_HEADERS" \in frame.flags
         THEN Raise([c EXCEPT !.header_frames = <<>>], "IndexError")
         ELSE Ret([c EXCEPT !.header_frames = Append(@, frame)], <<>>, <<>>)

----------------------------------------------------------------------------
(* The frame buffer.  A byte string is a sequence of numbers in 0..255.     *)
(* The 32-bit fields of the byte strings of the model are below 2^31.       *)

\* b'PRI * HTTP/2.0\r\n\r\nSM\r\n\r\n'
ClientPreface ==
    <<80, 82, 73, 32, 42, 32, 72, 84, 84, 80, 47, 50, 46, 48,
      13, 10, 13, 10, 83, 77, 13, 10, 13, 10>>

\* b'PRI * HTTP/1.1\r\n\r\nSM\r\n\r\n'
IncorrectPreface ==
    <<80, 82, 73, 32, 42, 32, 72, 84, 84, 80, 47, 49, 46, 49,
      13, 10, 13, 10, 83, 77, 13, 10, 13, 10>>

Min(a, b) == IF a < b THEN a ELSE b

\* s[n:]
Drop(s, n) == SubSeq(s, n + 1, Len(s))

\* s[a:b] for 0 <= a and 0 <= b
Slice(s, a, b) == SubSeq(s, a + 1, Min(b, Len(s)))

\* struct unpack of big-endian fields
U16(b) == b[1] * 256 + b[2]
U24(b) == b[1] * 65536 + b[2] * 256 + b[3]
U32(b) == b[1] * 16777216 + b[2] * 65536 + b[3] * 256 + b[4]
\* a 32-bit field & 0x7FFFFFFF
U31(b) == (b[1] % 128) * 16777216 + b[2] * 65536 + b[3] * 256 + b[4]
\* an unsigned 32-bit field whose top bit may be set, kept in two parts: the
\* value is high * 2^31 + low
Wide32(b) == [high |-> b[1] \div 128, low |-> U31(b)]

FrameBuffer__init__(server, skip_client_connection_preface) ==
    LET preamble == IF server THEN ClientPreface ELSE <<>>
    IN [data |-> <<>>,
        preamble |-> preamble,
        preamble_len |-> IF skip_client_connection_preface
                         THEN 0 ELSE Len(preamble)]

\* an add_data that takes the preamble off every chunk it is given
add_data_restripping(buf, data) ==
    [buf EXCEPT !.data = @ \o Drop(data, Min(buf.preamble_len, Len(data)))]

\* an add_data that compares the chunk with the preamble and refuses a chunk
\* that differs (the chunk is not buffered)
add_data_checked(buf, data) ==
    LET of_which_preamble == Min(buf.preamble_len, Len(data))
    IN IF SubSeq(buf.preamble, 1, of_which_preamble)
              # SubSeq(data, 1, of_which_preamble)
       THEN buf
       ELSE [data |-> buf.data \o Drop(data, of_which_preamble),
             preamble |-> Drop(buf.preamble, of_which_preamble),
             preamble_len |-> buf.preamble_len - of_which_preamble]

new_add_data(buf, data) ==
    IF buf.preamble_len # 0
    THEN LET of_which_preamble == Min(buf.preamble_len, Len(data))
         IN [data |-> buf.data \o Drop(data, of_which_preamble),
             preamble |-> Drop(buf.preamble, of_which_preamble),
             preamble_len |-> buf.preamble_len - of_which_preamble]
    ELSE [buf EXCEPT !.data = @ \o data]

\* hyperframe FRAMES: the class of a type byte, ExtensionFrame for the rest
FrameClass(type) ==
    CASE type = 0 -> "DataFrame"
      [] type = 1 -> "HeadersFrame"
      [] type = 2 -> "PriorityFrame"
      [] type = 3 -> "RstStreamFrame"
      [] type = 4 -> "SettingsFrame"
      [] type = 5 -> "PushPromiseFrame"
      [] type = 6 -> "PingFrame"
      [] type = 7 -> "GoAwayFrame"
      [] type = 8 -> "WindowUpdateFrame"
      [] type = 9 -> "ContinuationFrame"
      [] type = 10 -> "AltSvcFrame"
      [] OTHER -> "ExtensionFrame"

\* defined_flags of each class: name and bit
defined_flags(class) ==
    CASE class = "DataFrame" -> {<<"END_STREAM", 1>>, <<"PADDED", 8>>}
      [] class = "HeadersFrame" ->
             {<<"END_STREAM", 1>>, <<"END_HEADERS", 4>>, <<"PADDED", 8>>,
              <<"PRIORITY", 32>>}
      [] class = "SettingsFrame" -> {<<"ACK", 1>>}
      [] class = "PushPromiseFrame" -> {<<"END_HEADERS", 4>>, <<"PADDED", 8>>}
      [] class = "PingFrame" -> {<<"ACK", 1>>}
      [] class = "ContinuationFrame" -> {<<"END_HEADERS", 4>>}
      [] OTHER -> {}

\* Frame.parse_flags
parse_flags(class, flag_byte) ==
    {f[1] : f \in {g \in defined_flags(class) : (flag_byte \div g[2]) % 2 = 1}}

\* Frame.__init__ of the module: a frame of a class on any stream id at all
Frame__init__(class, stream_id) ==
    [class |-> class, stream_id |-> stream_id, flags |-> {}, body_len |-> 0,
     attrs |-> <<>>]

\* Frame.parse_frame_header on the first nine bytes
parse_frame_header(header) ==
    LET type == header[4]
        class == FrameClass(type)
        f == Frame__init__(class, U31(SubSeq(header, 6, 9)))
    IN [frame |-> [f EXCEPT !.flags = parse_flags(class, header[5]),
                            !.attrs = IF class = "ExtensionFrame"
                                      THEN [type |-> type, flag_byte |-> header[5]]
                                      ELSE <<>>],
        length |-> U24(header)]

ParseOk(f) == [err |-> "none", frame |-> f]
ParseErr(f, e) == [err |-> e, frame |-> f]

\* Padding.parse_padding_data: the pad-length byte of a PADDED frame
padding_data_length(f) == IF "PADDED" \in f.flags THEN 1 ELSE 0
pad_length_of(f, data) == IF "PADDED" \in f.flags THEN data[1] ELSE 0

\* Priority.parse_priority_data on the first five bytes
priority_attrs(data) ==
    [depends_on |-> U31(data), exclusive |-> data[1] >= 128,
     stream_weight |-> data[5]]

\* Priority.__init__: the attributes of a frame that carries no priority
no_priority == [depends_on |-> 0, exclusive |-> FALSE, stream_weight |-> 0]

\* SettingsFrame.settings after the loop over whole six-byte items: a later
\* item replaces an earlier one of the same name
settings_of(data) ==
    LET n == Len(data) \div 6
        names == {U16(Slice(data, 6 * i, 6 * i + 2)) : i \in 0..(n - 1)}
        lastof(name) ==
            CHOOSE i \in 0..(n - 1) :
                /\ U16(Slice(data, 6 * i, 6 * i + 2)) = name
                /\ \A j \in (i + 1)..(n - 1) :
                       U16(Slice(data, 6 * j, 6 * j + 2)) # name
    IN [name \in names |->
            U32(Slice(data, 6 * lastof(name) + 2, 6 * lastof(name) + 6))]

\* the frame with the attributes parse_body has set
Parsed(f, len, attrs) == [f EXCEPT !.body_len = len, !.attrs = attrs]

\* hyperframe's RstStreamFrame.parse_body: four bytes, the error code
rststream_parse_body_reading(f, data) ==
    IF Len(data) # 4 THEN ParseErr(f, "InvalidFrameError")
    ELSE ParseOk(Parsed(f, 4, [error_code |-> U32(data)]))

\* new_rststream_parse_body: the body is not read
new_rststream_parse_body(f, data) ==
    ParseOk(Parsed(f, 4, [error_code |-> 0]))

\* new_settings_parse_body: the whole six-byte items, whatever the flags and
\* whatever is left over
new_settings_parse_body(f, data) ==
    ParseOk(Parsed(f, Len(data), [settings |-> settings_of(data)]))

\* a PUSH_PROMISE parse_body that leaves the padding on the data
push_promise_parse_body_keeping_padding(f, data) ==
    LET n == Len(data)
        pdl == padding_data_length(f)
    IN IF n < pdl + 4 THEN ParseErr(f, "InvalidFrameError")
       ELSE ParseOk(Parsed(f, n,
                [promised_stream_id |-> U32(Slice(data, pdl, pdl + 4)),
                 data |-> Drop(data, pdl + 4),
                 pad_length |-> pad_length_of(f, data)]))

\* a parser that holds the padding against the bytes that follow the
\* pad-length byte
push_promise_parse_body_strict(f, data) ==
    LET n == Len(data)
        pdl == padding_data_length(f)
        pad == pad_length_of(f, data)
    IN IF pdl = 1 /\ n = 0 THEN ParseErr(f, "InvalidFrameError")
       ELSE IF n < pdl + 4 THEN ParseErr(f, "InvalidFrameError")
       ELSE IF pad # 0 /\ pad >= n - pdl THEN ParseErr(f, "InvalidPaddingError")
       ELSE ParseOk(Parsed(f, n,
                [promised_stream_id |-> U32(Slice(data, pdl, pdl + 4)),
                 data |-> Slice(data, pdl + 4, n - pad),
                 pad_length |-> pad]))

\* new_push_promise_parse_body
new_push_promise_parse_body(f, data) ==
    LET n == Len(data)
        pdl == padding_data_length(f)
        pad == pad_length_of(f, data)
    IN IF pdl = 1 /\ n = 0 THEN ParseErr(f, "InvalidFrameError")
       ELSE IF n < pdl + 4 THEN ParseErr(f, "InvalidFrameError")
       ELSE IF pad # 0 /\ pad >= n THEN ParseErr(f, "InvalidPaddingError")
       ELSE ParseOk(Parsed(f, n,
                [promised_stream_id |-> U32(Slice(data, pdl, pdl + 4)),
                 data |-> Slice(data, pdl + 4, n - pad),
                 pad_length |-> pad]))

\* new_window_update_parse_body: four bytes, taken as they are
new_window_update_parse_body(f, data) ==
    IF Len(data) # 4 THEN ParseErr(f, "InvalidFrameError")
    ELSE ParseOk(Parsed(f, 4, [window_increment |-> Wide32(data)]))

\* parse_body of each class: the four of the module, hyperframe's for the rest
parse_body(f, data) ==
    LET n == Len(data)
        pdl == padding_data_length(f)
        pad == pad_length_of(f, data)
    IN CASE f.class = "DataFrame" ->
              IF pdl = 1 /\ n = 0 THEN ParseErr(f, "InvalidFrameError")
              ELSE IF pad # 0 /\ pad >= n THEN ParseErr(f, "InvalidPaddingError")
              ELSE ParseOk(Parsed(f, n, [data |-> Slice(data, pdl, n - pad),
                                         pad_length |-> pad]))
         [] f.class = "HeadersFrame" ->
              IF pdl = 1 /\ n = 0 THEN ParseErr(f, "InvalidFrameError")
              ELSE LET d == Drop(data, pdl)
                       prio == "PRIORITY" \in f.flags
                       pl == IF prio THEN 5 ELSE 0
                   IN IF prio /\ Len(d) < 5 THEN ParseErr(f, "InvalidFrameError")
                      ELSE IF pad # 0 /\ pad >= Len(d)
                      THEN ParseErr(f, "InvalidPaddingError")
                      ELSE ParseOk(Parsed(f, Len(d),
                               [data |-> Slice(d, pl, Len(d) - pad),
                                pad_length |-> pad,
                                priority |-> IF prio THEN priority_attrs(d)
                                             ELSE no_priority]))
         [] f.class = "PriorityFrame" ->
              IF n # 5 THEN ParseErr(f, "InvalidFrameError")
              ELSE ParseOk(Parsed(f, 5, priority_attrs(data)))
         [] f.class = "RstStreamFrame" -> new_rststream_parse_body(f, data)
         [] f.class = "SettingsFrame" -> new_settings_parse_body(f, data)
         [] f.class = "PushPromiseFrame" -> new_push_promise_parse_body(f, data)
         [] f.class = "PingFrame" ->
              IF n # 8 THEN ParseErr(f, "InvalidFrameError")
              ELSE ParseOk(Parsed(f, 8, [opaque_data |-> data]))
         [] f.class = "GoAwayFrame" ->
              IF n < 8 THEN ParseErr(f, "InvalidFrameError")
              ELSE ParseOk(Parsed(f, n,
                       [last_stream_id |-> U31(data),
                        error_code |-> U32(Slice(data, 4, 8)),
                        additional_data |-> Drop(data, 8)]))
         [] f.class = "WindowUpdateFrame" -> new_window_update_parse_body(f, data)
         [] f.class = "ContinuationFrame" ->
              ParseOk(Parsed(f, n, [data |-> data]))
         [] f.class = "AltSvcFrame" ->
              IF n < 2 \/ n < 2 + U16(data) THEN ParseErr(f, "InvalidFrameError")
              ELSE ParseOk(Parsed(f, n, [origin |-> Slice(data, 2, 2 + U16(data)),
                                         field |-> Drop(data, 2 + U16(data))]))
         [] OTHER ->
              ParseOk(Parsed(f, n, [type |-> f.attrs.type,
                                    flag_byte |-> f.attrs.flag_byte,
                                    body |-> data]))

\* a header buffer that hands every frame on as it is
update_header_buffer_kept(f) == f

\* new_update_header_buffer: a CONTINUATION frame leaves as a fresh HEADERS
\* frame that carries its stream id, data and flags
new_update_header_buffer(f) ==
    IF f.class \in {"HeadersFrame", "PushPromiseFrame"} THEN f
    ELSE IF f.class = "ContinuationFrame"
    THEN [Frame__init__("HeadersFrame", f.stream_id) EXCEPT
              !.flags = f.flags,
              !.attrs = [data |-> f.attrs.data, pad_length |-> 0,
                         priority |-> no_priority]]
    ELSE f

NextResult(buf, err, frames) == [buf |-> buf, err |-> err, frames |-> frames]

\* a __next__ that takes the header off the buffer before the body is there
next_consuming_header(buf) ==
    IF Len(buf.data) < 9 THEN NextResult(buf, "StopIteration", <<>>)
    ELSE NextResult([buf EXCEPT !.data = Drop(@, 9)], "StopIteration", <<>>)

\* a __next__ that takes the nine header bytes of a frame off the buffer and
\* leaves its body there
next_header_only(buf) ==
    IF Len(buf.data) < 9 THEN NextResult(buf, "StopIteration", <<>>)
    ELSE LET h == parse_frame_header(SubSeq(buf.data, 1, 9))
             length == h.length
         IN IF Len(buf.data) < length + 9
            THEN NextResult(buf, "StopIteration", <<>>)
            ELSE LET p == parse_body(h.frame, Slice(buf.data, 9, 9 + length))
                 IN IF p.err = "InvalidDataError"
                    THEN NextResult(buf, "ProtocolError", <<>>)
                    ELSE IF p.err = "InvalidFrameError"
                    THEN NextResult(buf, "FrameDataMissingError", <<>>)
                    ELSE IF p.err # "none"
                    THEN NextResult(buf, p.err, <<>>)
                    ELSE NextResult([buf EXCEPT !.data = Drop(@, 9)],
                                    "none",
                                    <<new_update_header_buffer(p.frame)>>)

\* a __next__ that takes a frame whose body does not parse off the buffer
\* before it raises
next_dropping_malformed(buf) ==
    IF Len(buf.data) < 9 THEN NextResult(buf, "StopIteration", <<>>)
    ELSE LET h == parse_frame_header(SubSeq(buf.data, 1, 9))
             length == h.length
         IN IF Len(buf.data) < length + 9
            THEN NextResult(buf, "StopIteration", <<>>)
            ELSE LET p == parse_body(h.frame, Slice(buf.data, 9, 9 + length))
                     rest == [buf EXCEPT !.data = Drop(@, 9 + length)]
                 IN IF p.err = "InvalidDataError"
                    THEN NextResult(rest, "ProtocolError", <<>>)
                    ELSE IF p.err = "InvalidFrameError"
                    THEN NextResult(rest, "FrameDataMissingError", <<>>)
                    ELSE IF p.err # "none"
                    THEN NextResult(rest, p.err, <<>>)
                    ELSE NextResult(rest, "none",
                                    <<new_update_header_buffer(p.frame)>>)

\* new__next__: StopIteration without the nine header bytes or without the
\* whole body; an error of parse_body leaves the buffer; otherwise the frame
\* leaves the buffer and goes through new_update_header_buffer
new__next__(buf) ==
    IF Len(buf.data) < 9 THEN NextResult(buf, "StopIteration", <<>>)
    ELSE LET h == parse_frame_header(SubSeq(buf.data, 1, 9))
             length == h.length
         IN IF Len(buf.data) < length + 9
            THEN NextResult(buf, "StopIteration", <<>>)
            ELSE LET p == parse_body(h.frame, Slice(buf.data, 9, 9 + length))
                 IN IF p.err = "InvalidDataError"
                    THEN NextResult(buf, "ProtocolError", <<>>)
                    ELSE IF p.err = "InvalidFrameError"
                    THEN NextResult(buf, "FrameDataMissingError", <<>>)
                    ELSE IF p.err # "none"
                    THEN NextResult(buf, p.err, <<>>)
                    ELSE NextResult([buf EXCEPT !.data = Drop(@, 9 + length)],
                                    "none",
                                    <<new_update_header_buffer(p.frame)>>)

\* iterating the buffer: __next__ until it raises; the frames it returned and
\* what it raised at the end
RECURSIVE drain(_)
drain(buf) ==
    LET r == new__next__(buf)
    IN IF r.err # "none" THEN [frames |-> <<>>, err |-> r.err]
       ELSE LET rest == drain(r.buf)
            IN [frames |-> r.frames \o rest.frames, err |-> rest.err]

----------------------------------------------------------------------------
(* The bytes a peer sends *)

\* Frame.serialize: the nine header bytes, then the body
RawFrame(type, flag_byte, stream_id, body) ==
    <<Len(body) \div 65536, (Len(body) \div 256) % 256, Len(body) % 256,
      type, flag_byte,
      (stream_id \div 16777216) % 128, (stream_id \div 65536) % 256,
      (stream_id \div 256) % 256, stream_id % 256>> \o body

\* an empty SETTINGS frame, a DATA frame with END_STREAM on stream 1, a PING
\* frame of three bytes (its body does not parse), a CONTINUATION frame with
\* END_HEADERS on stream 1, a HEADERS frame without END_HEADERS on stream 1
SampleFrames ==
    {RawFrame(4, 0, 0, <<>>),
     RawFrame(0, 1, 1, <<104, 105>>),
     RawFrame(6, 0, 0, <<1, 2, 3>>),
     RawFrame(9, 4, 1, <<130>>),
     RawFrame(1, 0, 1, <<136>>)}

\* how many frames the peer sends
MaxWireFrames == 2

RECURSIVE Concat(_)
Concat(ss) == IF ss = <<>> THEN <<>> ELSE Head(ss) \o Concat(Tail(ss))

\* nothing, the client preface or the incorrect client preface, then frames;
\* the peer may stop five bytes short of the end of the last frame
Wires ==
    {SubSeq(p \o Concat(fs), 1, Len(p) + Len(Concat(fs)) - cut) :
        p \in {<<>>, ClientPreface, IncorrectPreface},
        fs \in UNION {[1..k -> SampleFrames] : k \in 0..MaxWireFrames},
        cut \in {0, 5}}

----------------------------------------------------------------------------
(* The frame codec: serialize of hyperframe, and parsing as __next__ does it *)

\* h2's _validate_setting: the error code for a value out of the range of
\* ENABLE_PUSH (2), INITIAL_WINDOW_SIZE (4), MAX_FRAME_SIZE (5),
\* MAX_HEADER_LIST_SIZE (6), ENABLE_CONNECT_PROTOCOL (8)
validate_setting_ranges(setting, value) ==
    CASE setting = 2 -> IF value \in {0, 1} THEN 0 ELSE 1
      [] setting = 4 -> IF value >= 0 THEN 0 ELSE 3
      [] setting = 5 -> IF value >= 16384 /\ value <= 16777215 THEN 0 ELSE 1
      [] setting = 6 -> IF value >= 0 THEN 0 ELSE 1
      [] setting = 8 -> IF value \in {0, 1} THEN 0 ELSE 1
      [] OTHER -> 0

\* new_validate_setting: every value of every setting is in order (NO_ERROR)
new_validate_setting(setting, value) == 0

\* struct pack of big-endian fields; P32x has the top bit given apart
P16(n) == <<(n \div 256) % 256, n % 256>>
P32x(top, n) ==
    <<((n \div 16777216) % 128) + (IF top THEN 128 ELSE 0),
      (n \div 65536) % 256, (n \div 256) % 256, n % 256>>
P32(n) == P32x(FALSE, n)

\* b'\0' * n
Zeros(n) == [i \in 1..n |-> 0]

\* the type byte of a class
FrameType(class) ==
    CASE class = "DataFrame" -> 0
      [] class = "HeadersFrame" -> 1
      [] class = "PriorityFrame" -> 2
      [] class = "RstStreamFrame" -> 3
      [] class = "SettingsFrame" -> 4
      [] class = "PushPromiseFrame" -> 5
      [] class = "PingFrame" -> 6
      [] class = "GoAwayFrame" -> 7
      [] class = "WindowUpdateFrame" -> 8
      [] class = "ContinuationFrame" -> 9
      [] class = "AltSvcFrame" -> 10

\* Frame.serialize: the flag byte is the sum of the bits of the flags set
RECURSIVE SumBits(_)
SumBits(S) ==
    IF S = {} THEN 0
    ELSE LET g == CHOOSE x \in S : TRUE IN g[2] + SumBits(S \ {g})

flag_byte_of(f) ==
    SumBits({g \in defined_flags(f.class) : g[1] \in f.flags})

\* Padding.serialize_padding_data, Priority.serialize_priority_data
serialize_padding_data(f) ==
    IF "PADDED" \in f.flags THEN <<f.attrs.pad_length>> ELSE <<>>

serialize_priority_data(p) ==
    P32x(p.exclusive, p.depends_on) \o <<p.stream_weight>>

\* SettingsFrame.serialize_body: one six-byte item per setting
RECURSIVE serialize_settings(_)
serialize_settings(settings) ==
    IF DOMAIN settings = {} THEN <<>>
    ELSE LET name == CHOOSE x \in DOMAIN settings :
                         \A y \in DOMAIN settings : x <= y
         IN P16(name % 256) \o P32(settings[name])
            \o serialize_settings(
                   [x \in DOMAIN settings \ {name} |-> settings[x]])

\* serialize_body of each class
serialize_body(f) ==
    LET a == f.attrs
    IN CASE f.class = "DataFrame" ->
              serialize_padding_data(f) \o a.data \o Zeros(a.pad_length)
         [] f.class = "HeadersFrame" ->
              serialize_padding_data(f)
              \o (IF "PRIORITY" \in f.flags
                  THEN serialize_priority_data(a.priority) ELSE <<>>)
              \o a.data \o Zeros(a.pad_length)
         [] f.class = "PriorityFrame" -> serialize_priority_data(a)
         [] f.class = "RstStreamFrame" -> P32(a.error_code)
         [] f.class = "SettingsFrame" -> serialize_settings(a.settings)
         [] f.class = "PushPromiseFrame" ->
              serialize_padding_data(f) \o P32(a.promised_stream_id)
              \o a.data \o Zeros(a.pad_length)
         [] f.class = "PingFrame" ->
              a.opaque_data \o Zeros(8 - Len(a.opaque_data))
         [] f.class = "GoAwayFrame" ->
              P32x(FALSE, a.last_stream_id) \o P32(a.error_code)
              \o a.additional_data
         [] f.class = "WindowUpdateFrame" ->
              P32x(a.window_increment.high = 1, a.window_increment.low)
         [] f.class = "ContinuationFrame" -> a.data
         [] f.class = "AltSvcFrame" ->
              P16(Len(a.origin)) \o a.origin \o a.field

\* Frame.serialize: the header with the length of the body, then the body
serialize(f) ==
    RawFrame(FrameType(f.class), flag_byte_of(f), f.stream_id,
             serialize_body(f))

\* parsing one whole frame: Frame.parse_frame_header on the nine header
\* bytes, then parse_body on the rest
parse_frame(bytes) ==
    parse_body(parse_frame_header(SubSeq(bytes, 1, 9)).frame, Drop(bytes, 9))

----------------------------------------------------------------------------
(* new_initiate_connection *)

\* local_settings: the defaults of h2's Settings, MAX_CONCURRENT_STREAMS and
\* MAX_HEADER_LIST_SIZE as the constructor sets them, ENABLE_PUSH as the
\* connection holds it
local_settings_items(c) ==
    (1 :> 4096) @@ (2 :> c.enable_push) @@ (3 :> 100) @@ (4 :> 65535)
    @@ (5 :> 16384) @@ (6 :> 65536) @@ (8 :> 0)

\* bytes added to _data_to_send in one piece
Bytes(bytes) == [type |-> "BYTES", bytes |-> bytes]

\* h2's initiate_connection, which knows no switch
initiate_connection_h2(c, cfg) ==
    LET sm == process_input(c.state, "SEND_SETTINGS")
        c1 == [c EXCEPT !.state = sm.state]
        preamble == IF cfg.client_side THEN ClientPreface ELSE <<>>
        f == [Frame__init__("SettingsFrame", 0) EXCEPT
                  !.attrs = [settings |-> local_settings_items(c)]]
    IN IF sm.err # "none" THEN Raise(c1, sm.err)
       ELSE Ret([c1 EXCEPT !.out_q = Append(@, Bytes(preamble \o serialize(f)))],
                <<>>, <<>>)

\* an initiate_connection that marks the preface as done with once it is queued
initiate_connection_once(c, cfg) ==
    IF cfg.skip_client_connection_preface
    THEN Ret(c, <<>>, <<>>)
    ELSE LET r == initiate_connection_h2(c, cfg)
         IN [r EXCEPT !.c.config.skip_client_connection_preface = TRUE]

initiate_connection(c, cfg) ==
    IF cfg.skip_client_connection_preface
    THEN Ret(c, <<>>, <<>>)
    ELSE LET sm == IF ~cfg.skip_initial_settings
                   THEN process_input(c.state, "SEND_SETTINGS")
                   ELSE [state |-> c.state, err |-> "none", events |-> <<>>]
             c1 == [c EXCEPT !.state = sm.state]
             preamble ==
                 IF cfg.client_side
                 THEN IF cfg.incorrect_client_connection_preface
                      THEN IncorrectPreface
                      ELSE ClientPreface
                 ELSE <<>>
             f == [Frame__init__("SettingsFrame", 0) EXCEPT
                       !.attrs = [settings |-> local_settings_items(c)]]
         IN IF sm.err # "none" THEN Raise(c1, sm.err)
            ELSE IF ~cfg.skip_initial_settings
                 THEN Ret([c1 EXCEPT !.out_q =
                               Append(@, Bytes(preamble \o serialize(f)))],
                          <<>>, <<>>)
                 ELSE Ret([c1 EXCEPT !.out_q = Append(@, Bytes(preamble))],
                          <<>>, <<>>)

----------------------------------------------------------------------------
(* The calls as steps of the connection *)

\* the number of items the model lets the queue hold before it is written out
MaxQueue == 2

\* the number of streams the model lets one connection know of, live in the
\* table or recorded as closed
MaxStreams == 2

\* the number of DATA frames the model sends and receives on one connection
MaxData == 2

\* payload lengths of DATA frames; two of the large one pass the 65535 window
DataLens == {0, 40000}

\* pad_length arguments: None, the ends of the range, and the first values
\* past each end
PadArgs == {<<>>, <<0>>, <<255>>, <<-1>>, <<256>>}

\* pad lengths of received DATA frames (0 on a frame that is not padded)
PadLens == {0, 1, 255}

\* a received DATA frame as DataFrame.parse_body leaves it: pad_length is the
\* first byte of the body when PADDED is set, and 0 otherwise
ReceivedData ==
    {a \in [n : DataLens, pad_length : PadLens, padded : BOOLEAN] :
        ~a.padded => a.pad_length = 0}

Configs ==
    [client_side : BOOLEAN, skip_initial_settings : BOOLEAN,
     skip_initial_settings_ack : BOOLEAN,
     incorrect_client_connection_preface : BOOLEAN,
     skip_client_connection_preface : BOOLEAN]

\* H2Configuration(): a client, no switch set
DefaultConfig ==
    [client_side |-> TRUE, skip_initial_settings |-> FALSE,
     skip_initial_settings_ack |-> FALSE,
     incorrect_client_connection_preface |-> FALSE,
     skip_client_connection_preface |-> FALSE]

\* H2Connection__init__modified
\* the incoming buffer as the constructor leaves it, and the bytes to come
NewBuffer(byte_strings) ==
    /\ incoming_buffer = FrameBuffer__init__(~config.client_side,
                              config.skip_client_connection_preface)
    /\ wire \in byte_strings
    /\ fed = 0
    /\ yielded = <<>>
    /\ discarded = <<>>

InitConn(cfgs, byte_strings) ==
    /\ config \in cfgs
    /\ conn_state = "IDLE"
    /\ local_enable_push = (IF config.client_side THEN 1 ELSE 0)
    /\ streams = <<>>
    /\ highest_inbound_stream_id = 0
    /\ highest_outbound_stream_id = 0
    /\ closed_streams = <<>>
    /\ header_frames = <<>>
    /\ data_to_send = <<>>
    /\ outbound_flow_control_window = Whole(InitialWindowSize)
    /\ inbound_window = InitialWindowSize
    /\ NewBuffer(byte_strings)
    /\ ndata = 0
    /\ ledger = [received |-> Whole(0), charged |-> 0]
    /\ last = [op |-> "init", sid |-> 0, arg |-> <<>>, err |-> "none",
               frames |-> <<>>, events |-> <<>>]

\* a pad_length send_data takes: None, or an int from 0 to 255
ValidPad(pad) == pad = <<>> \/ (pad[1] >= 0 /\ pad[1] <= 255)

\* the size send_data charges: len(data), plus pad_length + 1 when padded
FrameSize(arg) == arg.n + (IF arg.pad # <<>> THEN arg.pad[1] + 1 ELSE 0)

\* the connection takes the value a call left, and the call is remembered;
\* the ledger adds up what the call was given
Step(op, sid, arg, r) ==
    /\ Len(r.c.streams) + Len(r.c.closed) <= MaxStreams
    /\ ndata' = IF op \in {"send_data", "receive_data", "receive_window_update"}
                THEN ndata + 1 ELSE ndata
    /\ ledger' = IF op = "receive_window_update" /\ sid = 0
                 THEN [ledger EXCEPT !.received = Plus(@, arg.increment)]
                 ELSE IF op = "send_data" /\ ValidPad(arg.pad)
                 THEN [ledger EXCEPT !.charged = @ + FrameSize(arg)]
                 ELSE ledger
    /\ conn_state' = r.c.state
    /\ local_enable_push' = r.c.enable_push
    /\ streams' = r.c.streams
    /\ highest_inbound_stream_id' = r.c.hi_in
    /\ highest_outbound_stream_id' = r.c.hi_out
    /\ closed_streams' = r.c.closed
    /\ header_frames' = r.c.header_frames
    /\ data_to_send' = r.c.out_q
    /\ outbound_flow_control_window' = r.c.out_window
    /\ inbound_window' = r.c.in_window
    /\ last' = [op |-> op, sid |-> sid, arg |-> arg, err |-> r.err,
                frames |-> r.frames, events |-> r.events]
    /\ config' = r.c.config
    /\ UNCHANGED buf_vars

CanQueue == Len(data_to_send) < MaxQueue

ProcessInput ==
    \E i \in ConnectionInputs :
        LET sm == process_input(conn_state, i)
        IN Step("process_input", 0, i,
                [c |-> [Conn EXCEPT !.state = sm.state], err |-> sm.err,
                 frames |-> <<>>, events |-> sm.events])

InitiateConnection ==
    /\ data_to_send = <<>>
    /\ Step("initiate_connection", 0, <<>>, initiate_connection(Conn, config))

SendData ==
    \E sid \in StreamIds, n \in DataLens, es \in BOOLEAN, pad \in PadArgs :
        /\ CanQueue
        /\ ndata < MaxData
        /\ Step("send_data", sid, [n |-> n, end_stream |-> es, pad |-> pad],
                new_send_data(Conn, sid, n, es, pad))

ReceiveDataFrame ==
    \E sid \in StreamIds, a \in ReceivedData :
        /\ ndata < MaxData
        /\ Step("receive_data", sid, a,
                new_receive_data_frame(Conn,
                    [stream_id |-> sid, data_len |-> a.n,
                     flags |-> IF a.padded THEN {"PADDED"} ELSE {},
                     pad_length |-> a.pad_length]))

\* what is left once the transport has written the queue out
\* (H2Connection.data_to_send() hands the queue over and empties it)
Flushed(r) == [r EXCEPT !.c.out_q = <<>>]

\* send_headers opening a stream, the queue written out after the call
SendHeaders ==
    \E sid \in StreamIds, es \in BOOLEAN :
        /\ sid \notin Ids(streams)
        /\ Step("send_headers", sid, es, Flushed(send_headers(Conn, sid, es)))

\* reset_stream, the queue written out after the call
ResetStream ==
    \E sid \in StreamIds :
        Step("reset_stream", sid, <<>>, Flushed(reset_stream(Conn, sid)))

\* a HEADERS frame dispatched, with or without END_STREAM
ReceiveHeadersFrame ==
    \E sid \in StreamIds, es \in BOOLEAN :
        Step("receive_headers", sid, es, receive_headers_frame(Conn, sid, es))

ReceiveAltSvcFrame == Step("receive_alt_svc", 0, <<>>, receive_alt_svc_frame(Conn))

ReceiveGoAwayFrame == Step("receive_goaway", 0, <<>>, receive_goaway_frame(Conn))

ClearOutboundDataBuffer ==
    /\ data_to_send # <<>>
    /\ Step("clear_outbound_data_buffer", 0, <<>>, clear_outbound_data_buffer(Conn))

LocalSettingsAcked ==
    \E v \in {0, 1} : Step("local_settings_acked", 0, v, local_settings_acked(Conn, v))

ReceiveRstStreamFrame ==
    \E sid \in StreamIds :
        Step("receive_rst_stream", sid, <<>>, new_receive_rst_stream_frame(Conn, sid))

\* the increments of the model: one byte, what fills a fresh window to the
\* largest value, and the largest increment a WINDOW_UPDATE can carry in 31
\* bits
Increments == {1, LargestWindow - InitialWindowSize, LargestWindow}

ReceiveWindowUpdateFrame ==
    \E sid \in StreamIds, n \in Increments :
        /\ ndata < MaxData
        /\ Step("receive_window_update", sid, [increment |-> n],
                new_receive_window_update_frame(Conn, sid, n))

\* the PRIORITY frames of the model, for every stream id: the stream made to
\* depend on itself, exclusively and with the greatest weight byte, and on
\* the next id, with the least
ReceivedPriorityFrames ==
    {[stream_id |-> sid, depends_on |-> sid, exclusive |-> TRUE,
      stream_weight |-> 255] : sid \in StreamIds}
    \cup {[stream_id |-> sid, depends_on |-> (sid + 1) % 3, exclusive |-> FALSE,
           stream_weight |-> 0] : sid \in StreamIds}

ReceivePriorityFrame ==
    \E frame \in ReceivedPriorityFrames :
        Step("receive_priority", frame.stream_id, frame,
             new_receive_priority_frame(Conn, frame))

ReceivePushPromiseFrame ==
    \E sid \in StreamIds, promised \in StreamIds :
        Step("receive_push_promise", sid, promised,
             new_receive_push_promise_frame(Conn, sid, promised))

\* how many frames a pending header sequence holds in the model
MaxPending == 4

ReceiveNakedContinuation ==
    \E sid \in StreamIds, eh \in BOOLEAN :
        /\ Len(header_frames) < MaxPending
        /\ Step("receive_naked_continuation", sid, eh,
             new_receive_naked_continuation(Conn,
                 [type |-> "CONTINUATION", stream_id |-> sid,
                  flags |-> IF eh THEN {"END_HEADERS"} ELSE {}]))

\* the CONTINUATION frame of such a call
ContinuationArg(sid, eh) ==
    [type |-> "CONTINUATION", stream_id |-> sid,
     flags |-> IF eh THEN {"END_HEADERS"} ELSE {}]

----------------------------------------------------------------------------
(* The specifications *)

\* the stream table under the calls that open, reset and push streams
Init == InitConn({DefaultConfig}, {<<>>})

Next ==
    \/ SendHeaders
    \/ ResetStream
    \/ ReceiveAltSvcFrame
    \/ LocalSettingsAcked
    \/ ReceiveRstStreamFrame
    \/ ReceivePushPromiseFrame
    \/ ReceiveNakedContinuation

Spec == Init /\ [][Next]_vars

\* the connection state machine alone, under every configuration
InitSM == InitConn(Configs, {<<>>})

NextSM == ProcessInput \/ InitiateConnection

SpecSM == InitSM /\ [][NextSM]_vars

\* the two flow-control windows under DATA sent and received; the connection
\* starts with no stream, or with stream 1 as send_headers(1) leaves it, or
\* with stream 1 as a RST_STREAM received after that leaves it
OpenedStream1 ==
    [NewStream(1) EXCEPT !.state = "OPEN", !.client = "True", !.headers_sent = TRUE]

FlowTables ==
    {<<>>, <<OpenedStream1>>,
     <<[OpenedStream1 EXCEPT !.state = "CLOSED", !.closed_by = "RECV_RST_STREAM"]>>}

InitFlow ==
    /\ config = DefaultConfig
    /\ conn_state = "IDLE"
    /\ local_enable_push = 1
    /\ streams \in FlowTables
    /\ highest_inbound_stream_id = 0
    /\ highest_outbound_stream_id = (IF streams = <<>> THEN 0 ELSE 1)
    /\ closed_streams = <<>>
    /\ header_frames = <<>>
    /\ data_to_send = <<>>
    /\ outbound_flow_control_window = Whole(InitialWindowSize)
    /\ inbound_window = InitialWindowSize
    /\ NewBuffer({<<>>})
    /\ ndata = 0
    /\ ledger = [received |-> Whole(0), charged |-> 0]
    /\ last = [op |-> "init", sid |-> 0, arg |-> <<>>, err |-> "none",
               frames |-> <<>>, events |-> <<>>]

NextFlow ==
    \/ SendData
    \/ ReceiveDataFrame
    \/ ClearOutboundDataBuffer
    \/ ReceiveAltSvcFrame
    \/ ReceiveGoAwayFrame

SpecFlow == InitFlow /\ [][NextFlow]_vars

\* streams opened and closed, and the frames that need no open stream:
\* WINDOW_UPDATE, RST_STREAM, PRIORITY, GOAWAY
NextStreams ==
    \/ SendHeaders
    \/ ResetStream
    \/ ReceiveRstStreamFrame
    \/ ReceiveWindowUpdateFrame /\ last'.arg.increment < LargestWindow
    \/ ReceivePriorityFrame
    \/ ReceiveGoAwayFrame

\* stream 1 as three send_headers(1) without end_stream leave it: opened,
\* then its trailers refused, then closed by the failure of the third call,
\* with no closure reason
FailedStream1 ==
    [OpenedStream1 EXCEPT !.state = "CLOSED", !.trailers_sent = TRUE]

\* the connection starts with no stream, or with the stream above
InitStreams ==
    /\ config = DefaultConfig
    /\ conn_state = "IDLE"
    /\ local_enable_push = 1
    /\ streams \in {<<>>, <<FailedStream1>>}
    /\ highest_inbound_stream_id = 0
    /\ highest_outbound_stream_id = (IF streams = <<>> THEN 0 ELSE 1)
    /\ closed_streams = <<>>
    /\ header_frames = <<>>
    /\ data_to_send = <<>>
    /\ outbound_flow_control_window = Whole(InitialWindowSize)
    /\ inbound_window = InitialWindowSize
    /\ NewBuffer({<<>>})
    /\ ndata = 0
    /\ ledger = [received |-> Whole(0), charged |-> 0]
    /\ last = [op |-> "init", sid |-> 0, arg |-> <<>>, err |-> "none",
               frames |-> <<>>, events |-> <<>>]

SpecStreams == InitStreams /\ [][NextStreams]_vars

\* HEADERS received on the streams that send_headers opened and half-closed
NextHeaders ==
    \/ SendHeaders
    \/ ReceiveHeadersFrame
    \/ ResetStream
    \/ ReceiveGoAwayFrame

SpecHeaders == Init /\ [][NextHeaders]_vars

\* DATA (on stream 1, without padding), RST_STREAM and PUSH_PROMISE received
\* in every state of the connection: idle, opened by ALTSVC, closed by GOAWAY;
\* send_headers opens stream 1
NextRecv ==
    \/ SendHeaders /\ last'.sid = 1
    \/ ReceiveAltSvcFrame
    \/ ReceiveGoAwayFrame
    \/ ReceiveDataFrame /\ last'.sid = 1 /\ ~last'.arg.padded
    \/ ReceiveRstStreamFrame
    \/ ReceivePushPromiseFrame

SpecRecv == Init /\ [][NextRecv]_vars

\* the connection's outbound window: DATA sent and WINDOW_UPDATE frames
\* received on stream 0, in any order, on a new connection
NextWindow ==
    \/ SendData
    \/ ReceiveWindowUpdateFrame /\ last'.sid = 0

SpecWindow == Init /\ [][NextWindow]_vars

\* new_receive_naked_continuation as a function of the connection it is
\* called on: _header_frames is given as a sequence in progress, opened by a
\* HEADERS or a PUSH_PROMISE frame (no call of the module starts
\* one: the only append is the handler's own, behind its test for a sequence
\* in progress)
PendingSequences ==
    {<<[type |-> "HEADERS", stream_id |-> 1, flags |-> {}]>>,
     <<[type |-> "PUSH_PROMISE", stream_id |-> 1, flags |-> {}]>>,
     <<[type |-> "HEADERS", stream_id |-> 1, flags |-> {}],
       [type |-> "CONTINUATION", stream_id |-> 1, flags |-> {}]>>,
     <<[type |-> "HEADERS", stream_id |-> 2, flags |-> {}]>>}

InitCont ==
    /\ config = DefaultConfig
    /\ conn_state = "IDLE"
    /\ local_enable_push = 1
    /\ streams = <<OpenedStream1>>
    /\ highest_inbound_stream_id = 0
    /\ highest_outbound_stream_id = 1
    /\ closed_streams = <<>>
    /\ header_frames \in PendingSequences
    /\ data_to_send = <<>>
    /\ outbound_flow_control_window = Whole(InitialWindowSize)
    /\ inbound_window = InitialWindowSize
    /\ NewBuffer({<<>>})
    /\ ndata = 0
    /\ ledger = [received |-> Whole(0), charged |-> 0]
    /\ last = [op |-> "init", sid |-> 0, arg |-> <<>>, err |-> "none",
               frames |-> <<>>, events |-> <<>>]

NextCont == ReceiveNakedContinuation

SpecCont == InitCont /\ [][NextCont]_vars

----------------------------------------------------------------------------
(* The frame buffer alone: the peer's bytes arrive in chunks of any length, *)
(* and the buffer is asked for a frame at any time                          *)

\* a client, a server, and a server told that the peer skips the preface
BufConfigs ==
    {DefaultConfig,
     [DefaultConfig EXCEPT !.client_side = FALSE],
     [DefaultConfig EXCEPT !.client_side = FALSE,
                           !.skip_client_connection_preface = TRUE]}

InitBuf == InitConn(BufConfigs, Wires)

BufStep(op, err, frames) ==
    /\ last' = [op |-> op, sid |-> 0, arg |-> <<>>, err |-> err,
                frames |-> frames, events |-> <<>>]
    /\ UNCHANGED <<conn_vars, wire, ndata, ledger>>

\* add_data on the next k bytes; the bytes of the chunk that did not reach
\* the buffer were taken off as preamble
AddData ==
    \E k \in 0..(Len(wire) - fed) :
        LET chunk == SubSeq(wire, fed + 1, fed + k)
            b == new_add_data(incoming_buffer, chunk)
            kept == Len(b.data) - Len(incoming_buffer.data)
        IN /\ incoming_buffer' = b
           /\ fed' = fed + k
           /\ discarded' = discarded \o SubSeq(chunk, 1, k - kept)
           /\ UNCHANGED yielded
           /\ BufStep("add_data", "none", <<>>)

NextFrame ==
    LET r == new__next__(incoming_buffer)
    IN /\ incoming_buffer' = r.buf
       /\ yielded' = yielded \o r.frames
       /\ UNCHANGED <<fed, discarded>>
       /\ BufStep("next", r.err, r.frames)

NextBuf ==
    \/ AddData
    \/ NextFrame

SpecBuf == InitBuf /\ [][NextBuf]_vars

\* the buffer after one add_data of all the peer's bytes, asked for frames
\* again and again with nothing more added; the caller goes on asking
InitDrain ==
    /\ config \in BufConfigs
    /\ conn_state = "IDLE"
    /\ local_enable_push = (IF config.client_side THEN 1 ELSE 0)
    /\ streams = <<>>
    /\ highest_inbound_stream_id = 0
    /\ highest_outbound_stream_id = 0
    /\ closed_streams = <<>>
    /\ header_frames = <<>>
    /\ data_to_send = <<>>
    /\ outbound_flow_control_window = Whole(InitialWindowSize)
    /\ inbound_window = InitialWindowSize
    /\ wire \in Wires
    /\ incoming_buffer =
           new_add_data(FrameBuffer__init__(~config.client_side,
                                            config.skip_client_connection_preface),
                        wire)
    /\ fed = Len(wire)
    /\ yielded = <<>>
    /\ discarded = SubSeq(wire, 1, Len(wire) - Len(incoming_buffer.data))
    /\ ndata = 0
    /\ ledger = [received |-> Whole(0), charged |-> 0]
    /\ last = [op |-> "add_data", sid |-> 0, arg |-> <<>>, err |-> "none",
               frames |-> <<>>, events |-> <<>>]

NextDrain == NextFrame

SpecDrain == InitDrain /\ [][NextDrain]_vars /\ WF_vars(NextFrame)

----------------------------------------------------------------------------
(* The frames and the byte strings the codec is given *)

\* the longest payload of a frame object
MaxPayload == 1

Payloads == UNION {[1..k -> {7, 255}] : k \in 0..MaxPayload}

\* a frame object as its constructor and the caller's assignments leave it
MkFrame(class, stream_id, flags, attrs) ==
    [Frame__init__(class, stream_id) EXCEPT !.flags = flags, !.attrs = attrs]

\* pad_length of a frame object: set only together with the PADDED flag
PadChoices(flags) == IF "PADDED" \in flags THEN {0, 2} ELSE {0}

SomePriority == [depends_on |-> 3, exclusive |-> TRUE, stream_weight |-> 15]

PriorityChoices(flags) ==
    IF "PRIORITY" \in flags THEN {SomePriority} ELSE {no_priority}

\* values of settings: ENABLE_PUSH = 7 and MAX_FRAME_SIZE = 0 are values
\* RFC 7540 does not allow
SettingsChoices ==
    {<<>>, (2 :> 7), (2 :> 1) @@ (4 :> 65535), (5 :> 0) @@ (3 :> 100)}

DataFrames ==
    UNION {{MkFrame("DataFrame", sid, fl, [data |-> d, pad_length |-> p]) :
                sid \in {0, 1}, d \in Payloads, p \in PadChoices(fl)} :
           fl \in SUBSET {"END_STREAM", "PADDED"}}

HeadersFrames ==
    UNION {{MkFrame("HeadersFrame", 1, fl,
                    [data |-> d, pad_length |-> p, priority |-> pr]) :
                d \in Payloads, p \in PadChoices(fl),
                pr \in PriorityChoices(fl)} :
           fl \in SUBSET {"END_HEADERS", "PADDED", "PRIORITY"}}

PriorityFrames ==
    {MkFrame("PriorityFrame", sid, {},
             [depends_on |-> dep, exclusive |-> ex, stream_weight |-> w]) :
        sid \in {0, 1}, dep \in {0, 1}, ex \in BOOLEAN, w \in {0, 255}}

RstStreamFrames ==
    {MkFrame("RstStreamFrame", sid, {}, [error_code |-> code]) :
        sid \in {0, 1}, code \in {0, 8}}

SettingsFrames ==
    {MkFrame("SettingsFrame", 0, fl, [settings |-> st]) :
        fl \in SUBSET {"ACK"}, st \in SettingsChoices}

PushPromiseFrames ==
    UNION {{MkFrame("PushPromiseFrame", sid, fl,
                    [promised_stream_id |-> pid, data |-> d,
                     pad_length |-> p]) :
                sid \in {0, 1}, pid \in {0, 2}, d \in Payloads,
                p \in PadChoices(fl)} :
           fl \in SUBSET {"END_HEADERS", "PADDED"}}

PingFrames ==
    {MkFrame("PingFrame", 0, fl, [opaque_data |-> <<1, 2, 3, 4, 5, 6, 7, 8>>]) :
        fl \in SUBSET {"ACK"}}

GoAwayFrames ==
    {MkFrame("GoAwayFrame", 0, {},
             [last_stream_id |-> ls, error_code |-> code,
              additional_data |-> d]) :
        ls \in {0, 1}, code \in {0, 1}, d \in Payloads}

WindowUpdateFrames ==
    {MkFrame("WindowUpdateFrame", sid, {},
             [window_increment |-> [high |-> h, low |-> inc]]) :
        sid \in {0, 1}, h \in {0, 1}, inc \in {0, 5, 2147483647}}

ContinuationFrames ==
    {MkFrame("ContinuationFrame", 1, fl, [data |-> d]) :
        fl \in SUBSET {"END_HEADERS"}, d \in Payloads}

AltSvcFrames ==
    {MkFrame("AltSvcFrame", 0, {}, [origin |-> o, field |-> fd]) :
        o \in Payloads, fd \in Payloads}

\* the frame objects that are serialized
CodecFrames ==
    DataFrames \cup HeadersFrames \cup PriorityFrames \cup RstStreamFrames
    \cup SettingsFrames \cup PushPromiseFrames \cup PingFrames
    \cup GoAwayFrames \cup WindowUpdateFrames \cup ContinuationFrames
    \cup AltSvcFrames

\* the body of a SETTINGS frame a peer builds from (identifier, value) items
RECURSIVE SettingsBody(_)
SettingsBody(pairs) ==
    IF pairs = <<>> THEN <<>>
    ELSE P16(Head(pairs)[1]) \o P32(Head(pairs)[2]) \o SettingsBody(Tail(pairs))

SettingPairs == {1, 2, 4, 5, 300} \X {0, 1, 7, 16384}

\* one item, or two items (of one setting or of two)
SettingItems ==
    {<<p>> : p \in SettingPairs}
    \cup {<<p, q>> : p \in {<<2, 7>>, <<4, 0>>}, q \in {<<2, 0>>, <<5, 1>>}}

\* frames a peer sends that no serialize call need have made: SETTINGS frames
\* with any items, RST_STREAM frames with a body of 0, 1, 4 or 5 bytes
RawSettings ==
    {[type |-> 4, flag_byte |-> fb, stream_id |-> 0, items |-> it,
      body |-> SettingsBody(it)] : fb \in {0, 1}, it \in SettingItems}

RawRstStreams ==
    {[type |-> 3, flag_byte |-> 0, stream_id |-> sid, items |-> <<>>,
      body |-> b] :
        sid \in {0, 1},
        b \in {<<>>, <<8>>, <<0, 0, 0, 8>>, <<0, 0, 0, 8, 0>>}}

\* PUSH_PROMISE frames: without padding, whole and two bytes long; with
\* PADDED, an empty body, three bytes, and bodies of five and seven bytes
\* that declare 0, 1, 2, 4, 5 and 200 bytes of padding
RawPushPromises ==
    {[type |-> 5, flag_byte |-> 0, stream_id |-> 1, items |-> <<>>, body |-> b] :
        b \in {<<0, 0, 0, 2>>, <<0, 2>>}}
    \cup
    {[type |-> 5, flag_byte |-> 8, stream_id |-> 1, items |-> <<>>, body |-> b] :
        b \in {<<>>, <<200, 0, 0>>,
               <<0, 0, 0, 0, 2>>, <<4, 0, 0, 0, 2>>, <<5, 0, 0, 0, 2>>,
               <<200, 0, 0, 0, 2>>,
               <<1, 0, 0, 0, 2, 7, 0>>, <<2, 0, 0, 0, 2, 0, 0>>}}

\* WINDOW_UPDATE frames with a body of 0, 3, 4 and 5 bytes; the four bytes
\* are 0, 5, 2^31 + 5 and 2^32 - 1
RawWindowUpdates ==
    {[type |-> 8, flag_byte |-> 0, stream_id |-> sid, items |-> <<>>,
      body |-> b] :
        sid \in {0, 1},
        b \in {<<>>, <<0, 0, 5>>, <<0, 0, 0, 0>>, <<0, 0, 0, 5>>,
               <<128, 0, 0, 5>>, <<255, 255, 255, 255>>, <<0, 0, 0, 5, 0>>}}

CodecRaw ==
    RawSettings \cup RawRstStreams \cup RawPushPromises \cup RawWindowUpdates

----------------------------------------------------------------------------
(* The codec alone: a frame object is serialized, or a peer's frame        *)
(* arrives, and the bytes are parsed                                        *)

InitCodec == InitConn({DefaultConfig}, {<<>>})

CodecStep(op, arg, bytes, err, frames) ==
    /\ wire' = bytes
    /\ last' = [op |-> op, sid |-> 0, arg |-> arg, err |-> err,
                frames |-> frames, events |-> <<>>]
    /\ UNCHANGED <<conn_vars, incoming_buffer, fed, yielded, discarded, ndata, ledger>>

SerializeFrame ==
    \E f \in CodecFrames :
        CodecStep("serialize", [frame |-> f, kind |-> "frame"],
                  serialize(f), "none", <<>>)

ReceiveRawFrame ==
    \E r \in CodecRaw :
        CodecStep("receive", [kind |-> "raw", raw |-> r],
                  RawFrame(r.type, r.flag_byte, r.stream_id, r.body),
                  "none", <<>>)

ParseFrame ==
    /\ last.op \in {"serialize", "receive"}
    /\ LET p == parse_frame(wire)
       IN CodecStep("parse", last.arg, wire, p.err,
                    IF p.err = "none" THEN <<p.frame>> ELSE <<>>)

\* every kind of call on one connection: initiate_connection, the buffer,
\* send_data and DATA received (on stream 1, without padding), other frames
\* dispatched; the peer sends one CONTINUATION frame without END_HEADERS
PolicyWires == {RawFrame(9, 0, 1, <<>>)}

\* either side, with or without skip_client_connection_preface, the three
\* other switches all clear or all set
PolicyConfigs ==
    {cfg \in Configs :
        /\ cfg.skip_initial_settings_ack = cfg.skip_initial_settings
        /\ cfg.incorrect_client_connection_preface = cfg.skip_initial_settings}

InitPolicy == InitConn(PolicyConfigs, PolicyWires)

NextPolicy ==
    \/ InitiateConnection
    \/ AddData
    \/ NextFrame
    \/ SendData /\ last'.sid = 1 /\ last'.arg.pad = <<>>
    \/ ReceiveDataFrame /\ last'.sid = 1 /\ ~last'.arg.padded
    \/ ReceiveRstStreamFrame
    \/ ReceivePushPromiseFrame
    \/ ReceiveNakedContinuation

SpecPolicy == InitPolicy /\ [][NextPolicy]_vars

NextCodec ==
    \/ SerializeFrame
    \/ ReceiveRawFrame
    \/ ParseFrame

SpecCodec == InitCodec /\ [][NextCodec]_vars

----------------------------------------------------------------------------
(* The starts of SpecFlow are states of Spec: each predicate below is reached *)

FlowStartOpen ==
    /\ conn_state = "IDLE" /\ streams = <<OpenedStream1>>
    /\ highest_outbound_stream_id = 1 /\ highest_inbound_stream_id = 0
    /\ closed_streams = <<>> /\ local_enable_push = 1

FlowStartReset ==
    /\ conn_state = "IDLE"
    /\ streams = <<[OpenedStream1 EXCEPT !.state = "CLOSED",
                                         !.closed_by = "RECV_RST_STREAM"]>>
    /\ highest_outbound_stream_id = 1 /\ highest_inbound_stream_id = 0
    /\ closed_streams = <<>> /\ local_enable_push = 1

----------------------------------------------------------------------------
(* The connection state machine *)

\* C1, as the claim states it: in every connection state, CLOSED included, each
\* of SEND_DATA, RECV_DATA, SEND_HEADERS, RECV_HEADERS returns without error
\* and leaves the connection state as it was.
C1_RelaxedInEveryState ==
    [][(last'.op = "process_input" /\ last'.arg \in RelaxedInputs)
        => (last'.err = "none" /\ conn_state' = conn_state)]_vars

\* C1, amended: the four inputs return without error, with no event, and leave
\* the state unchanged while the state is IDLE; in every other case (another
\* state, or another input) the outcome is the one of the transition table: the
\* target state of (state, input), or ProtocolError and CLOSED when the table
\* has no such pair - so in CLOSED the four inputs raise ProtocolError.
C1_RelaxedInIdleOnly ==
    [][last'.op = "process_input"
        => IF conn_state = "IDLE" /\ last'.arg \in RelaxedInputs
           THEN last'.err = "none" /\ last'.events = <<>> /\ conn_state' = "IDLE"
           ELSE IF ConnTransition(conn_state, last'.arg) = "INVALID"
                THEN last'.err = "ProtocolError" /\ conn_state' = "CLOSED"
                ELSE /\ last'.err = "none"
                     /\ conn_state' = ConnTransition(conn_state, last'.arg)]_vars

\* RECV_HEADERS was fed in IDLE and the connection is still IDLE (the table
\* alone would have moved it to SERVER_OPEN)
C1_Witness ==
    /\ last.op = "process_input" /\ last.arg = "RECV_HEADERS"
    /\ last.err = "none" /\ conn_state = "IDLE"

----------------------------------------------------------------------------
(* send_data and the receipt of DATA *)

C3_SendDataUnconditional ==
    [][(last'.op = "send_data" /\ ValidPad(last'.arg.pad))
        => /\ last'.err = "none"
           /\ Len(data_to_send') = Len(data_to_send) + 1
           /\ SubSeq(data_to_send', 1, Len(data_to_send)) = data_to_send
           /\ LET f == data_to_send'[Len(data_to_send')]
              IN /\ f.type = "DATA" /\ f.stream_id = last'.sid
                 /\ f.payload = last'.arg.n
                 /\ f.length = FrameSize(last'.arg)
                 /\ ("END_STREAM" \in f.flags) = last'.arg.end_stream
                 /\ ("PADDED" \in f.flags) = (last'.arg.pad # <<>>)
           /\ outbound_flow_control_window' =
                  Minus(outbound_flow_control_window, FrameSize(last'.arg))]_vars

\* DATA was sent on a closed stream of a closed connection, behind a frame
\* still in the queue, and left the window negative
C3_Witness ==
    /\ last.op = "send_data" /\ last.err = "none"
    /\ conn_state = "CLOSED"
    /\ last.sid \in Ids(streams) /\ Get(streams, last.sid).state = "CLOSED"
    /\ Len(data_to_send) = 2
    /\ Below(outbound_flow_control_window, Whole(0))

\* the flow-controlled length new_receive_data_frame is asked to accept
RecvSize(arg) == arg.n + (IF arg.pad_length # 0 THEN arg.pad_length + 1 ELSE 0)

----------------------------------------------------------------------------
(* PUSH_PROMISE and CONTINUATION receipt *)

\* the stream a PUSH_PROMISE is resolved against: stream 1 for stream id 0
ParentOf(sid) == IF sid = 0 THEN 1 ELSE sid

\* the parent is absent from the table, or is in it and closed
ParentUnusable(sid) ==
    \/ ParentOf(sid) \notin Ids(streams)
    \/ Get(streams, ParentOf(sid)).state = "CLOSED"

\* the parent was closed by an outbound RST_STREAM, as the table or the
\* closed-stream record tells
ParentLocallyReset(tbl, cs, sid) ==
    stream_closed_by(tbl, cs, ParentOf(sid)) = "SEND_RST_STREAM"

\* the call created no stream for the promised id
NoStreamCreated(promised) ==
    /\ Ids(streams') = Ids(streams)
    /\ promised \in Ids(streams) => Get(streams', promised) = Get(streams, promised)

\* C8: a PUSH_PROMISE (enable_push set) whose parent is absent or closed is
\* answered with exactly one RST_STREAM(REFUSED_STREAM) for the promised id and
\* no error when the parent was closed by an outbound RST_STREAM, the parent
\* staying recorded as locally reset, and fails with ProtocolError when the
\* parent is missing for another reason; no stream is created either way.
C8_PushOnUnusableParent ==
    [][(last'.op = "receive_push_promise" /\ local_enable_push # 0
            /\ ParentUnusable(last'.sid))
        => /\ IF ParentLocallyReset(streams, closed_streams, last'.sid)
              THEN /\ last'.err = "none"
                   /\ last'.frames = <<RstRefused(last'.arg)>>
                   /\ ParentLocallyReset(streams', closed_streams', last'.sid)
              ELSE last'.err = "ProtocolError"
           /\ NoStreamCreated(last'.arg)]_vars

\* the same statement for the frames whose stream id is not 0
C8_PushOnUnusableNamedParent ==
    [][(last'.op = "receive_push_promise" /\ local_enable_push # 0
            /\ last'.sid # 0 /\ ParentUnusable(last'.sid))
        => /\ IF ParentLocallyReset(streams, closed_streams, last'.sid)
              THEN /\ last'.err = "none"
                   /\ last'.frames = <<RstRefused(last'.arg)>>
                   /\ ParentLocallyReset(streams', closed_streams', last'.sid)
              ELSE last'.err = "ProtocolError"
           /\ NoStreamCreated(last'.arg)]_vars

\* C9: with enable_push false, the receipt of any PUSH_PROMISE fails with
\* ProtocolError and leaves the stream table and the two highest stream ids
\* as they were.
C9_PushDisabled ==
    [][(last'.op = "receive_push_promise" /\ local_enable_push = 0)
        => /\ last'.err = "ProtocolError"
           /\ last'.frames = <<>> /\ last'.events = <<>>
           /\ streams' = streams
           /\ highest_inbound_stream_id' = highest_inbound_stream_id
           /\ highest_outbound_stream_id' = highest_outbound_stream_id]_vars

\* a PUSH_PROMISE on the open stream 1 was refused with enable_push off
C9_Witness ==
    /\ last.op = "receive_push_promise" /\ last.err = "ProtocolError"
    /\ local_enable_push = 0
    /\ last.sid = 1 /\ last.arg = 2
    /\ 1 \in Ids(streams) /\ Get(streams, 1).state = "OPEN"
    /\ 2 \notin Ids(streams)

\* C10: a CONTINUATION frame dispatched while no header sequence is being
\* assembled returns no frames and no events, raises no error and leaves the
\* connection state, the stream table, the pending header frames, the windows
\* and the outbound queue unchanged.
C10_NakedContinuationDropped ==
    [][(last'.op = "receive_naked_continuation" /\ header_frames = <<>>)
        => /\ last'.err = "none"
           /\ last'.frames = <<>> /\ last'.events = <<>>
           /\ UNCHANGED conn_vars]_vars

\* a CONTINUATION for the open stream 1 was dropped
C10_Witness ==
    /\ last.op = "receive_naked_continuation" /\ last.err = "none"
    /\ last.sid = 1 /\ last.arg = TRUE
    /\ 1 \in Ids(streams) /\ Get(streams, 1).state = "OPEN"
    /\ header_frames = <<>>

----------------------------------------------------------------------------
(* The frame buffer: chunks, partial frames, the preamble *)

\* the buffer as the constructor of this connection made it
FreshBuffer ==
    FrameBuffer__init__(~config.client_side,
                        config.skip_client_connection_preface)

\* what iterating the buffer gives when all of wire arrives in one add_data
OneShot == drain(new_add_data(FreshBuffer, wire))

\* C5: however the bytes fed so far were split into chunks, and whenever
\* frames were taken in between, the frames yielded so far followed by the
\* frames the rest of the bytes give are the frames (and the final outcome)
\* of feeding all the bytes in one call.
C5_ChunkIndependence ==
    LET r == drain(new_add_data(incoming_buffer,
                                SubSeq(wire, fed + 1, Len(wire))))
    IN /\ yielded \o r.frames = OneShot.frames
       /\ r.err = OneShot.err

\* a server took the preamble off and yielded one frame, and the bytes fed
\* end inside the header of the next frame
C5_Witness ==
    /\ Len(discarded) = Len(ClientPreface)
    /\ Len(yielded) = 1
    /\ fed < Len(wire)
    /\ Len(incoming_buffer.data) \in 1..8

\* C6: __next__ returns a frame only when the nine header bytes and the whole
\* body the header announces are buffered, and then takes exactly these bytes;
\* with fewer bytes it raises StopIteration and leaves the buffer as it was,
\* at every call.
C6_NextFrameNeedsWholeFrame ==
    [][last'.op = "next"
        => LET d == incoming_buffer.data
               whole == Len(d) >= 9 /\ Len(d) >= 9 + U24(d)
           IN /\ ~whole => /\ last'.err = "StopIteration"
                           /\ last'.frames = <<>>
                           /\ incoming_buffer' = incoming_buffer
              /\ last'.frames # <<>>
                   => /\ whole
                      /\ incoming_buffer'.data = Drop(d, 9 + U24(d))]_vars

\* StopIteration with a header buffered and its body not yet whole
C6_Witness ==
    /\ last.op = "next" /\ last.err = "StopIteration"
    /\ Len(incoming_buffer.data) >= 9
    /\ Len(incoming_buffer.data) < 9 + U24(incoming_buffer.data)

\* C7, as the claim states it: every byte add_data discarded equals the byte
\* of the client preface at the same position.
C7_DiscardsOnlyMatchingBytes ==
    \A i \in 1..Len(discarded) : discarded[i] = ClientPreface[i]

\* C7, amended: add_data discards the first bytes of the input, as many as the
\* pending preamble is long, over as many calls as it takes and whatever the
\* bytes are; nothing else is discarded.
C7_DiscardsLeadingBytesUnchecked ==
    /\ discarded = SubSeq(wire, 1, Min(FreshBuffer.preamble_len, fed))
    /\ incoming_buffer.preamble_len = FreshBuffer.preamble_len - Len(discarded)

\* part of the preface has arrived, and the byte of "HTTP/1.1" that differs
\* from "HTTP/2.0" was discarded
C7_Witness ==
    /\ Len(discarded) \in 13..23
    /\ discarded[12] # ClientPreface[12]

----------------------------------------------------------------------------
(* The codec: SETTINGS values, RST_STREAM bodies, the round trip *)

\* the last step parsed a frame a peer sent, of the given type
ParsedRaw(type) ==
    /\ last.op = "parse" /\ last.arg.kind = "raw" /\ last.arg.raw.type = type

\* the item of a setting that comes last in a sequence of items
IsLastItem(items, i) ==
    \A j \in (i + 1)..Len(items) : items[j][1] # items[i][1]

\* C11: a SETTINGS frame with any (identifier, value) items, values RFC 7540
\* does not allow included, parses without error; the validation of every
\* item reports no error (0), and the value the frame keeps for a setting is
\* the value received (the last one when a setting comes twice).
C11_SettingsAcceptedVerbatim ==
    ParsedRaw(4)
        => /\ last.err = "none"
           /\ LET items == last.arg.raw.items
                  settings == last.frames[1].attrs.settings
              IN /\ DOMAIN settings = {items[i][1] : i \in 1..Len(items)}
                 /\ \A i \in 1..Len(items) :
                       /\ new_validate_setting(items[i][1], items[i][2]) = 0
                       /\ IsLastItem(items, i)
                            => settings[items[i][1]] = items[i][2]

\* ENABLE_PUSH = 7 was received and parsed
C11_Witness ==
    /\ ParsedRaw(4)
    /\ last.arg.raw.items = <<<<2, 7>>>>
    /\ last.err = "none"
    /\ last.frames[1].attrs.settings[2] = 7

\* C12: the body of a RST_STREAM frame of any length (none, one byte, four
\* bytes, more) parses without error, and the error code recorded is 0.
C12_RstStreamBodyNotRead ==
    ParsedRaw(3)
        => /\ last.err = "none"
           /\ last.frames[1].class = "RstStreamFrame"
           /\ last.frames[1].attrs.error_code = 0

\* a RST_STREAM frame with a body of one byte was parsed
C12_Witness ==
    /\ ParsedRaw(3)
    /\ Len(last.arg.raw.body) = 1
    /\ last.err = "none"

\* the fields of two frames are the same: class, stream id, flags and every
\* attribute of the body (body_len, the length serialize and parse_body note
\* down, is left aside)
SameFrame(f, g) ==
    /\ f.class = g.class /\ f.stream_id = g.stream_id
    /\ f.flags = g.flags /\ f.attrs = g.attrs

\* the last step parsed the bytes serialize made of a frame object
ParsedSerialized == last.op = "parse" /\ last.arg.kind = "frame"

PaddingFillsBody(f) ==
    /\ f.class = "HeadersFrame"
    /\ f.attrs.pad_length # 0
    /\ f.attrs.pad_length >= Len(serialize_body(f)) - 1

----------------------------------------------------------------------------
(* initiate_connection and the configuration *)

\* the preface the switches ask of this side
ExpectedPreface ==
    IF ~config.client_side THEN <<>>
    ELSE IF config.incorrect_client_connection_preface
    THEN IncorrectPreface ELSE ClientPreface

\* the bytes initiate_connection queued in the step, none if it queued nothing
InitiateQueued ==
    IF data_to_send' = data_to_send THEN <<>>
    ELSE data_to_send'[Len(data_to_send')].bytes

\* what the switches ask of a call of initiate_connection: with
\* skip_client_connection_preface nothing is queued and the state stays,
\* whatever the other switches; otherwise one piece of bytes is queued, which
\* is the preface of the switches (24 bytes for a client, HTTP/1.1 when
\* incorrect_client_connection_preface is set) followed at once by one
\* SETTINGS frame on stream 0 that carries local_settings, or the preface
\* alone when skip_initial_settings is set
InitiateAsSwitchesAsk ==
    /\ last'.err = "none" /\ last'.events = <<>>
    /\ conn_state' = conn_state
    /\ IF config.skip_client_connection_preface
       THEN data_to_send' = data_to_send
       ELSE /\ Len(data_to_send') = Len(data_to_send) + 1
            /\ SubSeq(InitiateQueued, 1, Len(ExpectedPreface)) = ExpectedPreface
            /\ config.client_side => Len(ExpectedPreface) = PrefaceLen
            /\ LET rest == Drop(InitiateQueued, Len(ExpectedPreface))
               IN IF config.skip_initial_settings THEN rest = <<>>
                  ELSE /\ Len(rest) = 9 + U24(rest)
                       /\ parse_frame(rest).err = "none"
                       /\ SameFrame(parse_frame(rest).frame,
                              MkFrame("SettingsFrame", 0, {},
                                  [settings |-> local_settings_items(Conn)]))

\* SEND_SETTINGS is given to the state machine, which refuses it
InitiateOnClosed ==
    /\ conn_state = "CLOSED"
    /\ ~config.skip_initial_settings
    /\ ~config.skip_client_connection_preface

\* C14 as stated: the bytes initiate_connection queues are a function of the
\* switches only, in every state of the connection.
C14_InitiateBySwitchesOnly ==
    [][last'.op = "initiate_connection" => InitiateAsSwitchesAsk]_vars

\* C14: the bytes initiate_connection queues are a function of the switches
\* (none with skip_client_connection_preface; else the preface of the side
\* and switches, then one SETTINGS frame of local_settings unless
\* skip_initial_settings is set), except on a closed connection that is to
\* send SETTINGS: there the call fails with ProtocolError and queues nothing.
C14_InitiateFollowsSwitches ==
    [][last'.op = "initiate_connection"
        => IF InitiateOnClosed
           THEN /\ last'.err = "ProtocolError"
                /\ data_to_send' = data_to_send
                /\ conn_state' = "CLOSED"
           ELSE InitiateAsSwitchesAsk]_vars

\* a client with incorrect_client_connection_preface queued the HTTP/1.1
\* preface and the SETTINGS frame
C14_Witness ==
    /\ last.op = "initiate_connection" /\ last.err = "none"
    /\ config.client_side /\ config.incorrect_client_connection_preface
    /\ ~config.skip_initial_settings
    /\ Len(data_to_send) = 1
    /\ SubSeq(data_to_send[1].bytes, 1, PrefaceLen) = IncorrectPreface
    /\ Len(data_to_send[1].bytes) = PrefaceLen + 9 + 42

\* C15: no call changes a switch of the configuration the connection was
\* built with: not initiate_connection, add_data, __next__, send_data or the
\* receipt of a frame.
C15_PolicyImmutable == [][config' = config]_vars

\* a connection with switches set has sent its preface, read a frame from
\* the buffer and queued data after it, and the switches are as they were
C15_Witness ==
    /\ config.incorrect_client_connection_preface
    /\ config.skip_initial_settings
    /\ yielded # <<>>
    /\ Len(data_to_send) = 2
    /\ data_to_send[1] = Bytes(IncorrectPreface)
    /\ last.op = "send_data"

----------------------------------------------------------------------------
(* WINDOW_UPDATE, RST_STREAM and PRIORITY received *)

\* the window of every stream of a table, by stream id
StreamWindows(tbl) == {<<tbl[k].id, tbl[k].out_window>> : k \in 1..Len(tbl)}

\* a WINDOW_UPDATE on stream 0 took effect: the connection's window grew by
\* the increment, no stream's window moved, no frame is returned and the one
\* event is WindowUpdated for stream 0 with the increment as delta
ConnectionWindowUpdated ==
    /\ last'.err = "none"
    /\ outbound_flow_control_window'
           = Plus(outbound_flow_control_window, last'.arg.increment)
    /\ StreamWindows(streams') = StreamWindows(streams)
    /\ last'.frames = <<>>
    /\ last'.events = <<[type |-> "WindowUpdated", stream_id |-> 0,
                         delta |-> last'.arg.increment]>>

\* C16 as stated: every WINDOW_UPDATE received on stream 0 adds its increment
\* to the connection's outbound window, leaves the streams' windows alone
\* and gives one WindowUpdated event for stream 0.
C16_ConnectionWindowGrows ==
    [][(last'.op = "receive_window_update" /\ last'.sid = 0)
        => ConnectionWindowUpdated]_vars

\* C16: a WINDOW_UPDATE received on stream 0 of a connection that is not
\* closed adds its increment to the connection's outbound window, leaves the
\* streams' windows alone and gives one WindowUpdated event for stream 0 with
\* the increment as delta; on a closed connection it raises ProtocolError and
\* the windows stay.
C16_ConnectionWindowGrowsUnlessClosed ==
    [][(last'.op = "receive_window_update" /\ last'.sid = 0)
        => IF conn_state = "CLOSED"
           THEN /\ last'.err = "ProtocolError"
                /\ outbound_flow_control_window' = outbound_flow_control_window
                /\ StreamWindows(streams') = StreamWindows(streams)
           ELSE ConnectionWindowUpdated]_vars

\* the connection's window was filled to the largest value while a stream is
\* in the table
C16_Witness ==
    /\ last.op = "receive_window_update" /\ last.sid = 0 /\ last.err = "none"
    /\ last.arg.increment = LargestWindow - InitialWindowSize
    /\ outbound_flow_control_window = Whole(LargestWindow)
    /\ streams # <<>>
    /\ \A k \in 1..Len(streams) : streams[k].out_window = InitialWindowSize

\* the stream of a nonzero id was created and is closed: it is in the table
\* in state CLOSED, or it has left the table (its id is not above the highest
\* id of its kind)
StreamAlreadyClosed(sid) ==
    /\ sid # 0
    /\ IF sid \in Ids(streams) THEN IsClosed(Get(streams, sid))
       ELSE get_stream_by_id_err(streams, highest_inbound_stream_id,
                                 highest_outbound_stream_id, sid)
                = "StreamClosedError"

\* the closure of the stream has a reason: a frame with END_STREAM or
\* RST_STREAM, sent or received, and not an operation that failed on it
ClosureRecorded(sid) ==
    sid \in Ids(streams) => Get(streams, sid).closed_by # "None"

\* the WINDOW_UPDATE was dropped: no error, no frame, no event, and the
\* connection's window as it was
WindowUpdateDropped ==
    /\ last'.err = "none"
    /\ last'.frames = <<>> /\ last'.events = <<>>
    /\ outbound_flow_control_window' = outbound_flow_control_window

C17_WitnessPurged ==
    /\ last.op = "receive_window_update" /\ last.sid = 1
    /\ last.err = "none" /\ last.events = <<>>
    /\ 1 \notin Ids(streams)
    /\ highest_outbound_stream_id >= 1

\* a WINDOW_UPDATE for a stream that a failed operation closed
C17_WitnessNoReason ==
    /\ last.op = "receive_window_update" /\ last.sid = 1
    /\ last.err = "ProtocolError"
    /\ conn_state # "CLOSED"
    /\ 1 \in Ids(streams)
    /\ Get(streams, 1).closed_by = "None"

\* C18: a RST_STREAM received on stream 0 returns no frame and the one event
\* StreamReset for stream 0, and leaves the stream table, the record of closed
\* streams, every stream and the state of the connection as they were, in
\* every state of the connection.
C18_ResetOfStreamZero ==
    [][(last'.op = "receive_rst_stream" /\ last'.sid = 0)
        => /\ last'.err = "none"
           /\ last'.frames = <<>>
           /\ last'.events = <<[type |-> "StreamReset", stream_id |-> 0]>>
           /\ streams' = streams
           /\ closed_streams' = closed_streams
           /\ conn_state' = conn_state]_vars

\* RST_STREAM on stream 0 was taken on a closed connection that has a stream
\* in its table and a closed stream on record
C18_Witness ==
    /\ last.op = "receive_rst_stream" /\ last.sid = 0 /\ last.err = "none"
    /\ conn_state = "CLOSED"
    /\ streams # <<>>
    /\ closed_streams # <<>>

\* the id has an entry in the table, or a closure reason on record
StreamKnown(sid) == sid \in Ids(streams) \/ sid \in Ids(closed_streams)

\* C19: a RST_STREAM received for a nonzero stream id fails only when the
\* id has no entry in the table and no closure reason on record; for a stream
\* that was created and has been closed the handler does not fail.
C19_ResetFailsOnlyIfUnknown ==
    [][(last'.op = "receive_rst_stream" /\ last'.sid # 0 /\ last'.err # "none")
        => ~StreamKnown(last'.sid)]_vars

\* what the handler does: it fails for every id that has no entry in the
\* table, closed streams on record included, and for an entry of the table
\* only when that stream is idle or already closed
C19_ResetFailsOutsideTable ==
    [][(last'.op = "receive_rst_stream" /\ last'.sid # 0)
        => IF last'.sid \notin Ids(streams)
           THEN /\ last'.err \in {"NoSuchStreamError", "StreamClosedError"}
                /\ last'.err = "StreamClosedError"
                       <=> last'.sid <= IF stream_id_is_outbound(last'.sid)
                                        THEN highest_outbound_stream_id
                                        ELSE highest_inbound_stream_id
                /\ streams' = streams
           ELSE last'.err # "none"
                   => Get(streams, last'.sid).state \in {"IDLE", "CLOSED"}]_vars

\* RST_STREAM failed for a stream whose closure, by the peer's RST_STREAM, is
\* on record
C19_FailsOnRecordedClosure ==
    /\ last.op = "receive_rst_stream" /\ last.sid = 1
    /\ last.err = "StreamClosedError"
    /\ 1 \notin Ids(streams)
    /\ 1 \in Ids(closed_streams)
    /\ Get(closed_streams, 1).by = "RECV_RST_STREAM"

\* what a PRIORITY frame gives when it is accepted: no frame, one
\* PriorityUpdated event with the frame's stream_id, depends_on and exclusive
\* and the weight byte plus one; the connection and its streams stay
PriorityAccepted ==
    /\ last'.err = "none"
    /\ last'.frames = <<>>
    /\ last'.events = <<[type |-> "PriorityUpdated",
                         stream_id |-> last'.arg.stream_id,
                         depends_on |-> last'.arg.depends_on,
                         exclusive |-> last'.arg.exclusive,
                         weight |-> last'.arg.stream_weight + 1]>>
    /\ conn_state' = conn_state
    /\ streams' = streams

\* C20 as stated: a PRIORITY frame is accepted in every state of the
\* connection, for every stream id and every depends_on.
C20_PriorityAlwaysAccepted ==
    [][last'.op = "receive_priority" => PriorityAccepted]_vars

\* C20: a PRIORITY frame is accepted in every state of the connection but
\* CLOSED, for every stream id and every depends_on, the frame's own stream
\* id included: no frame, one PriorityUpdated event with the frame's
\* stream_id, depends_on and exclusive and the weight byte plus one. On a
\* closed connection it raises ProtocolError.
C20_PriorityAcceptedUnlessClosed ==
    [][last'.op = "receive_priority"
        => IF conn_state = "CLOSED"
           THEN last'.err = "ProtocolError" /\ last'.events = <<>>
           ELSE PriorityAccepted]_vars

\* a PRIORITY frame that makes a stream with no entry in the table depend on
\* itself was accepted, with the greatest weight, beside another stream
C20_Witness ==
    /\ last.op = "receive_priority" /\ last.err = "none"
    /\ last.arg.stream_id = 2 /\ last.arg.depends_on = 2
    /\ 2 \notin Ids(streams)
    /\ last.arg.stream_weight = 255
    /\ last.events[1].weight = 256
    /\ streams # <<>>

----------------------------------------------------------------------------
(* PUSH_PROMISE on stream 0, CONTINUATION, DATA and HEADERS received *)

\* the step gave what the handler gives for the same frame on stream 1:
\* the same error, frames, events and stream table
SameAsOnStream1 ==
    LET r == new_receive_push_promise_frame(Conn, 1, last'.arg)
    IN /\ last'.err = r.err
       /\ last'.frames = r.frames
       /\ last'.events = r.events
       /\ streams' = r.c.streams

\* C21: a PUSH_PROMISE frame with stream_id 0 is resolved against stream 1:
\* whatever the state of stream 1, the error, the frames, the events and the
\* stream table are those of the same frame received with stream_id 1.
C21_PushOnZeroIsPushOnOne ==
    [][(last'.op = "receive_push_promise" /\ last'.sid = 0)
        => SameAsOnStream1]_vars

\* what holds: the two frames are treated alike while stream 1 is in the
\* table, and also when neither stream 0 nor stream 1 has been reset by us
C21_PushOnZeroIsPushOnOneInTable ==
    [][(/\ last'.op = "receive_push_promise" /\ last'.sid = 0
        /\ \/ 1 \in Ids(streams)
           \/ /\ stream_closed_by(streams, closed_streams, 0) # "SEND_RST_STREAM"
              /\ stream_closed_by(streams, closed_streams, 1) # "SEND_RST_STREAM")
        => SameAsOnStream1]_vars

\* PUSH_PROMISE on stream 0 was refused with ProtocolError although stream 1
\* is on record as reset by us
C21_ZeroFailsWhereOneIsRefused ==
    /\ last.op = "receive_push_promise" /\ last.sid = 0
    /\ last.err = "ProtocolError"
    /\ local_enable_push = 1
    /\ 1 \notin Ids(streams)
    /\ stream_closed_by(streams, closed_streams, 1) = "SEND_RST_STREAM"

C22_ContinuationEndRaises ==
    [][(last'.op = "receive_naked_continuation" /\ header_frames # <<>>)
        => /\ last'.frames = <<>> /\ last'.events = <<>>
           /\ streams' = streams
           /\ IF last'.arg
              THEN last'.err = "IndexError" /\ header_frames' = <<>>
              ELSE /\ last'.err = "none"
                   /\ header_frames' =
                          Append(header_frames,
                                 ContinuationArg(last'.sid, FALSE))]_vars

\* the CONTINUATION with END_HEADERS that ends a sequence raised IndexError
C22_EndHeadersRaised ==
    /\ last.op = "receive_naked_continuation" /\ last.arg
    /\ last.err = "IndexError"
    /\ header_frames = <<>>

\* C23: a received DATA frame with the PADDED flag, whatever its pad_length
\* from 0 to 255, reduces the connection's inbound window by
\* len(payload) + pad_length + 1, and a frame without padding by len(payload).
C23_PaddedDataCharged ==
    [][last'.op = "receive_data"
        => inbound_window' = inbound_window
              - (IF last'.arg.padded
                 THEN last'.arg.n + last'.arg.pad_length + 1
                 ELSE last'.arg.n)]_vars

\* what the handler charges: the pad length byte counts only when the pad
\* length is not 0
C23_PadByteChargedUnlessZero ==
    [][last'.op = "receive_data"
        => inbound_window' = inbound_window
              - (IF last'.arg.pad_length # 0
                 THEN last'.arg.n + last'.arg.pad_length + 1
                 ELSE last'.arg.n)]_vars

\* a DATA frame with PADDED, pad_length 0 and no payload has left the inbound
\* window as it was
C23_ZeroPadNotCharged ==
    /\ last.op = "receive_data" /\ last.arg.padded
    /\ last.arg.pad_length = 0 /\ last.arg.n = 0
    /\ ndata = 1
    /\ inbound_window = InitialWindowSize

\* the frame at the head of the buffer as parse_frame_header and parse_body
\* give it
HeadOfBuffer ==
    LET d == incoming_buffer.data
        h == parse_frame_header(SubSeq(d, 1, 9))
    IN parse_body(h.frame, Slice(d, 9, 9 + h.length)).frame

\* C24: every CONTINUATION frame taken from the buffer leaves it, at its own
\* place in the sequence, as a HEADERS frame with the same stream id, payload
\* and flags, whether a HEADERS or PUSH_PROMISE frame came before it or not;
\* no frame yielded is a CONTINUATION frame, and a frame of any other type
\* leaves as it was parsed.
C24_ContinuationLeavesAsHeaders ==
    /\ [](\A i \in 1..Len(yielded) : yielded[i].class # "ContinuationFrame")
    /\ [][(last'.op = "next" /\ last'.frames # <<>>)
           => LET p == HeadOfBuffer
                  y == last'.frames[1]
              IN /\ yielded' = Append(yielded, y)
                 /\ IF p.class = "ContinuationFrame"
                    THEN /\ y.class = "HeadersFrame"
                         /\ y.stream_id = p.stream_id
                         /\ y.flags = p.flags
                         /\ y.attrs.data = p.attrs.data
                    ELSE y = p]_vars

\* the frame a CONTINUATION frame with END_HEADERS on stream 1 leaves as
ContinuationAsHeaders(y) ==
    /\ y.class = "HeadersFrame" /\ y.stream_id = 1
    /\ y.flags = {"END_HEADERS"} /\ y.attrs.data = <<130>>
    /\ y.body_len = 0

\* a CONTINUATION frame that opened the wire was yielded as a HEADERS frame
C24_Witness ==
    /\ last.op = "next" /\ Len(yielded) = 1
    /\ last.frames = <<yielded[1]>>
    /\ ContinuationAsHeaders(yielded[1])

\* a CONTINUATION frame that followed a HEADERS frame without END_HEADERS
\* was yielded after it as a second HEADERS frame
C24_WitnessAfterHeaders ==
    /\ last.op = "next" /\ Len(yielded) = 2
    /\ yielded[1].class = "HeadersFrame" /\ yielded[1].flags = {}
    /\ yielded[1].body_len = 1
    /\ ContinuationAsHeaders(yielded[2])

\* C25: in every state reached by feeding bytes to the buffer, taking frames
\* from it and dispatching frames to the handlers, the pending header
\* sequence is empty, so no CONTINUATION frame ever finds a sequence in
\* progress.
C25_NoSequenceInProgress == header_frames = <<>>

\* the CONTINUATION frame of the wire has left the buffer, a CONTINUATION
\* frame without END_HEADERS was dispatched after it, and nothing is pending
C25_Witness ==
    /\ Len(yielded) = 1 /\ yielded[1].class = "HeadersFrame"
    /\ last.op = "receive_naked_continuation" /\ ~last.arg
    /\ last.err = "none"
    /\ header_frames = <<>>

\* the stream of the frame received is in the table and HALF_CLOSED_LOCAL
InHalfClosedLocal(sid) ==
    /\ sid \in Ids(streams)
    /\ Get(streams, sid).state = "HALF_CLOSED_LOCAL"

\* C26: a stream in HALF_CLOSED_LOCAL that receives HEADERS without
\* END_STREAM raises no error, returns no frames and the events of the
\* headers received, and stays HALF_CLOSED_LOCAL.
C26_HeadersWithoutEndStreamAccepted ==
    [][(last'.op = "receive_headers" /\ ~last'.arg /\ InHalfClosedLocal(last'.sid))
        => /\ last'.err = "none"
           /\ last'.frames = <<>>
           /\ last'.events # <<>>
           /\ Get(streams', last'.sid).state = "HALF_CLOSED_LOCAL"]_vars

\* what happens: on a connection that is not closed the call raises, and
\* returns neither frames nor events; the first two HEADERS frames end in
\* AttributeError with the stream still HALF_CLOSED_LOCAL, a third one in
\* ProtocolError with the stream closed
C26_HeadersInHalfClosedLocalRaise ==
    [][(last'.op = "receive_headers" /\ InHalfClosedLocal(last'.sid)
        /\ conn_state # "CLOSED")
        => /\ last'.frames = <<>> /\ last'.events = <<>>
           /\ IF Get(streams, last'.sid).trailers_received
              THEN /\ last'.err = "ProtocolError"
                   /\ Get(streams', last'.sid).state = "CLOSED"
              ELSE /\ last'.err = "AttributeError"
                   /\ Get(streams', last'.sid).state = "HALF_CLOSED_LOCAL"]_vars

\* HEADERS without END_STREAM on a stream in HALF_CLOSED_LOCAL ended in
\* AttributeError
C26_HeadersRaised ==
    /\ last.op = "receive_headers" /\ ~last.arg
    /\ last.err = "AttributeError"
    /\ InHalfClosedLocal(last.sid)
    /\ Get(streams, last.sid).headers_received

\* C27: a stream in HALF_CLOSED_LOCAL that receives HEADERS with END_STREAM
\* moves to CLOSED.
C27_HeadersWithEndStreamClose ==
    [][(last'.op = "receive_headers" /\ last'.arg /\ InHalfClosedLocal(last'.sid))
        => Get(streams', last'.sid).state = "CLOSED"]_vars

\* what happens: END_STREAM changes nothing, the frame with it leaves the
\* connection as the same frame without it does
C27_EndStreamIgnored ==
    [][(last'.op = "receive_headers" /\ InHalfClosedLocal(last'.sid))
        => LET r == receive_headers_frame(Conn, last'.sid, ~last'.arg)
           IN /\ streams' = r.c.streams
              /\ conn_state' = r.c.state
              /\ last'.err = r.err /\ last'.events = r.events]_vars

\* HEADERS with END_STREAM left the stream HALF_CLOSED_LOCAL
C27_StillHalfClosedLocal ==
    /\ last.op = "receive_headers" /\ last.arg
    /\ last.err = "AttributeError"
    /\ InHalfClosedLocal(last.sid)

\* the flow-controlled size of the DATA frame of a step
FlowControlledLength(l) ==
    IF l.op = "send_data"
    THEN l.arg.n + (IF l.arg.pad # <<>> THEN l.arg.pad[1] + 1 ELSE 0)
    ELSE l.arg.n + (IF l.arg.pad_length # 0 THEN l.arg.pad_length + 1 ELSE 0)

\* C28: send_data of n flow-controlled bytes on a stream takes n from the
\* outbound window of that stream, and a DATA frame of n flow-controlled
\* bytes received on a stream takes n from the inbound window of that
\* stream, besides the windows of the connection.
C28_StreamWindowsFollowData ==
    [][(last'.op \in {"send_data", "receive_data"} /\ last'.err = "none"
        /\ last'.sid \in Ids(streams))
        => LET before == Get(streams, last'.sid)
               after == Get(streams', last'.sid)
               n == FlowControlledLength(last')
           IN IF last'.op = "send_data"
              THEN after.out_window = before.out_window - n
              ELSE after.in_window = before.in_window - n]_vars

\* what happens: DATA sent or received changes the windows of the connection
\* and leaves every stream, its windows included, as it was
C28_StreamWindowsUntouched ==
    [][(last'.op \in {"send_data", "receive_data"} /\ last'.err = "none")
        => /\ streams' = streams
           /\ IF last'.op = "send_data"
              THEN outbound_flow_control_window' =
                       Minus(outbound_flow_control_window, FlowControlledLength(last'))
              ELSE inbound_window' =
                       inbound_window - FlowControlledLength(last')]_vars

\* 40000 bytes were sent on open stream 1: the window of the connection has
\* gone down and the stream's outbound window is still the initial one
C28_StreamWindowStale ==
    /\ last.op = "send_data" /\ last.sid = 1 /\ last.arg.n = 40000
    /\ last.err = "none"
    /\ 1 \in Ids(streams) /\ Get(streams, 1).state = "OPEN"
    /\ Get(streams, 1).out_window = InitialWindowSize
    /\ Below(outbound_flow_control_window, Whole(InitialWindowSize))

----------------------------------------------------------------------------
(* The stream table and the record of closed streams *)

\* the step created a Stream for the id it names: send_headers on an id that
\* is not in the table, or a PUSH_PROMISE that was accepted
CreatedStream ==
    \/ last'.op = "send_headers" /\ last'.sid \notin Ids(streams)
         /\ last'.sid \in Ids(streams')
    \/ last'.op = "receive_push_promise" /\ last'.err = "none"
         /\ last'.events # <<>>

CreatedId == IF last'.op = "send_headers" THEN last'.sid ELSE last'.arg

\* C29: a Stream is created at most once per stream id: whenever a call
\* creates one, directly or for the promised id of an accepted PUSH_PROMISE,
\* the id is neither live in the table nor on record as a closed stream.
C29_StreamCreatedOnce ==
    [][CreatedStream
        => /\ CreatedId \notin Ids(streams)
           /\ CreatedId \notin Ids(closed_streams)]_vars

\* what happens: an accepted PUSH_PROMISE puts a fresh stream in the table
\* under the promised id whatever was there, the parent itself included
C29_PushedStreamReplaces ==
    [][(last'.op = "receive_push_promise" /\ last'.err = "none"
        /\ last'.events # <<>>)
        => Get(streams', last'.arg) =
               stream_process_input(NewStream(last'.arg), last'.arg,
                                    "RECV_PUSH_PROMISE").stream]_vars

\* a PUSH_PROMISE on stream 1 that promised stream 1 was accepted: the entry
\* of stream 1, opened by send_headers, is now a fresh reserved stream
C29_LiveStreamReplaced ==
    /\ last.op = "receive_push_promise" /\ last.sid = 1 /\ last.arg = 1
    /\ last.err = "none" /\ last.events # <<>>
    /\ Get(streams, 1).state = "RESERVED_REMOTE"
    /\ ~Get(streams, 1).headers_sent

\* the positions of the records of cs that are still in cs2
Kept(cs, cs2) == {k \in 1..Len(cs) : cs[k].id \in Ids(cs2)}

\* the stream is neither in the table nor on record as closed
Forgotten(sid) == sid \notin Ids(streams) /\ sid \notin Ids(closed_streams)

\* every record of closed_streams that a step drops is older than every
\* record it keeps, and records are dropped only from a full mapping
OldestDropped ==
    closed_streams' # closed_streams
        => /\ \A k \in 1..Len(closed_streams) :
                 \A j \in 1..k :
                     j \in Kept(closed_streams, closed_streams')
                         => k \in Kept(closed_streams, closed_streams')
           /\ Kept(closed_streams, closed_streams') # 1..Len(closed_streams)
                 => Len(closed_streams') = MaxClosedStreams

\* a PUSH_PROMISE on a stream of the given ids whose parent is forgotten is
\* refused with ProtocolError, and no RST_STREAM is returned
PushOnForgottenParent(sids) ==
    (last'.op = "receive_push_promise" /\ last'.sid \in sids
     /\ local_enable_push = 1 /\ Forgotten(ParentOf(last'.sid)))
        => /\ last'.err = "ProtocolError"
           /\ last'.frames = <<>>

\* C30: closed_streams never holds more records than its capacity; when a
\* new record would pass the capacity the oldest one is dropped; and a
\* PUSH_PROMISE whose parent was reset by us and has lost its record is
\* refused with ProtocolError, as for a stream that never existed, and not
\* answered with RST_STREAM.
C30_EvictedParentIsUnknown ==
    /\ [](Len(closed_streams) <= MaxClosedStreams)
    /\ [][OldestDropped]_vars
    /\ [][PushOnForgottenParent(StreamIds)]_vars

\* what holds: the capacity and the order of eviction, and the refusal for
\* every frame that names its parent (a stream id other than 0)
C30_EvictedNamedParentIsUnknown ==
    /\ [](Len(closed_streams) <= MaxClosedStreams)
    /\ [][OldestDropped]_vars
    /\ [][PushOnForgottenParent(StreamIds \ {0})]_vars

\* the record of stream 0, reset by us, is the only one kept and stream 1 is
\* forgotten: a PUSH_PROMISE on stream 0 was answered with RST_STREAM
C30_ForgottenParentReset ==
    /\ last.op = "receive_push_promise" /\ last.sid = 0
    /\ last.err = "none" /\ last.frames = <<RstRefused(last.arg)>>
    /\ Forgotten(1)
    /\ closed_streams = <<[id |-> 0, by |-> "SEND_RST_STREAM"]>>

\* a first record was dropped when a second closed stream left the table,
\* and a PUSH_PROMISE on the stream of the dropped record raised
\* ProtocolError
C30_EvictedParentRefused ==
    /\ last.op = "receive_push_promise" /\ last.sid = 1
    /\ last.err = "ProtocolError"
    /\ Forgotten(1) /\ highest_outbound_stream_id = 1
    /\ Len(closed_streams) = MaxClosedStreams

----------------------------------------------------------------------------
(* The frame buffer and the parsers, once more *)

\* the frame at the head of the buffer is there whole
HeadWhole ==
    LET d == incoming_buffer.data
    IN Len(d) >= 9 /\ Len(d) >= 9 + U24(d)

\* the frame at the head of the buffer is there whole and its body does not
\* parse
HeadMalformed ==
    /\ HeadWhole
    /\ LET d == incoming_buffer.data
           h == parse_frame_header(SubSeq(d, 1, 9))
       IN parse_body(h.frame, Slice(d, 9, 9 + h.length)).err # "none"

\* C31: a frame that is buffered whole and whose body does not parse is
\* never skipped: __next__ raises an error that is not StopIteration, takes
\* nothing from the buffer, and from then on no call yields a frame, whatever
\* is buffered behind the malformed one.
C31_MalformedFrameNeverSkipped ==
    [][HeadMalformed
        => /\ HeadMalformed'
           /\ yielded' = yielded
           /\ last'.op = "next"
                => /\ last'.err \notin {"none", "StopIteration"}
                   /\ last'.frames = <<>>
                   /\ incoming_buffer' = incoming_buffer]_vars

\* __next__ raised on a PING frame of three bytes that has another frame
\* buffered whole behind it
C31_Witness ==
    /\ last.op = "next" /\ last.err = "FrameDataMissingError"
    /\ HeadMalformed
    /\ LET d == Drop(incoming_buffer.data, 9 + U24(incoming_buffer.data))
       IN Len(d) >= 9 /\ Len(d) >= 9 + U24(d)

\* the body of the PUSH_PROMISE frame parsed is too short to hold the
\* pad-length byte, when PADDED is set, and the promised stream id
PushPromiseTooShort(raw) ==
    Len(raw.body) < (IF raw.flag_byte = 8 THEN 5 ELSE 4)

\* C32, as the claim states it: a padded PUSH_PROMISE body fails with
\* InvalidPadding whenever the padding it declares is as long as, or longer
\* than, the body that follows the pad-length byte, so that the padding of a
\* frame that parses never reaches into the promised stream id; and a body
\* too short to hold the promised stream id is a framing error.
C32_PaddingWithinRemainingBody ==
    ParsedRaw(5)
        => LET raw == last.arg.raw
               b == raw.body
           IN /\ PushPromiseTooShort(raw) => last.err = "InvalidFrameError"
              /\ (~PushPromiseTooShort(raw) /\ raw.flag_byte = 8
                  /\ b[1] # 0 /\ b[1] >= Len(b) - 1)
                    => last.err = "InvalidPaddingError"
              /\ (last.err = "none" /\ raw.flag_byte = 8)
                    => b[1] <= Len(b) - 5

\* C32, as the parser has it: the padding is held against the whole body, the
\* pad-length byte and the promised stream id included. A body too short for
\* the promised stream id is a framing error; otherwise the frame fails with
\* InvalidPadding exactly when its padding is not 0 and is as long as the
\* whole body or longer; every other frame parses, with the promised stream
\* id read from the four bytes in their place even when the declared padding
\* covers them, and then with no header block data.
C32_PaddingWithinWholeBody ==
    ParsedRaw(5)
        => LET raw == last.arg.raw
               b == raw.body
               pdl == IF raw.flag_byte = 8 THEN 1 ELSE 0
               pad == IF raw.flag_byte = 8 /\ b # <<>> THEN b[1] ELSE 0
           IN IF PushPromiseTooShort(raw)
              THEN last.err = "InvalidFrameError"
              ELSE IF pad # 0 /\ pad >= Len(b)
              THEN last.err = "InvalidPaddingError"
              ELSE /\ last.err = "none"
                   /\ last.frames[1].attrs.promised_stream_id
                         = U32(SubSeq(b, pdl + 1, pdl + 4))
                   /\ last.frames[1].attrs.pad_length = pad
                   /\ last.frames[1].attrs.data
                         = SubSeq(b, pdl + 5, Len(b) - pad)

\* a PUSH_PROMISE body of five bytes that declares four bytes of padding was
\* parsed: promised stream id 2, no header block data
C32_Witness ==
    /\ ParsedRaw(5)
    /\ last.arg.raw.body = <<4, 0, 0, 0, 2>>
    /\ last.err = "none"
    /\ last.frames[1].attrs.promised_stream_id = 2
    /\ last.frames[1].attrs.pad_length = 4
    /\ last.frames[1].attrs.data = <<>>

\* C33: a WINDOW_UPDATE body of exactly four bytes parses, whatever the
\* bytes, to the increment they hold with the reserved top bit ignored, a
\* value from 0 to 2^31 - 1; a body of any other length is a framing error.
C33_IncrementTopBitIgnored ==
    ParsedRaw(8)
        => LET b == last.arg.raw.body
           IN IF Len(b) = 4
              THEN /\ last.err = "none"
                   /\ last.frames[1].attrs.window_increment.high = 0
                   /\ last.frames[1].attrs.window_increment.low = U31(b)
              ELSE last.err = "InvalidFrameError"

\* what the parser does: the four bytes are taken as one unsigned value, top
\* bit included, from 0 to 2^32 - 1; a body of any other length is a framing
\* error
C33_IncrementTakenWhole ==
    ParsedRaw(8)
        => LET b == last.arg.raw.body
           IN IF Len(b) = 4
              THEN /\ last.err = "none"
                   /\ last.frames[1].attrs.window_increment.high = b[1] \div 128
                   /\ last.frames[1].attrs.window_increment.low = U31(b)
              ELSE last.err = "InvalidFrameError"

\* the body 80 00 00 05 was parsed to the increment 2^31 + 5
C33_TopBitKept ==
    /\ ParsedRaw(8)
    /\ last.arg.raw.body = <<128, 0, 0, 5>>
    /\ last.err = "none"
    /\ last.frames[1].attrs.window_increment = [high |-> 1, low |-> 5]

----------------------------------------------------------------------------
(* The highest stream ids, the connection state, the outbound window *)

\* the highest id of the direction of a stream id
HighestOf(sid) ==
    IF stream_id_is_outbound(sid) THEN highest_outbound_stream_id
    ELSE highest_inbound_stream_id

\* C34: highest_inbound_stream_id and highest_outbound_stream_id never
\* decrease, whatever streams are created, and each is at least every stream
\* id of its direction in the table or on record as closed.
C34_HighestIdsNeverDecrease ==
    /\ [][/\ highest_inbound_stream_id' >= highest_inbound_stream_id
          /\ highest_outbound_stream_id' >= highest_outbound_stream_id]_vars
    /\ [](\A sid \in Ids(streams) \cup Ids(closed_streams) :
              sid <= HighestOf(sid))

\* what happens: the creation of a stream sets the highest id of its
\* direction to the id created, higher or lower than it was, and leaves the
\* other one; no other step changes either
C34_HighestIdIsLastCreated ==
    [][IF CreatedStream
       THEN IF stream_id_is_outbound(CreatedId)
            THEN /\ highest_outbound_stream_id' = CreatedId
                 /\ highest_inbound_stream_id' = highest_inbound_stream_id
            ELSE /\ highest_inbound_stream_id' = CreatedId
                 /\ highest_outbound_stream_id' = highest_outbound_stream_id
       ELSE /\ highest_inbound_stream_id' = highest_inbound_stream_id
            /\ highest_outbound_stream_id' = highest_outbound_stream_id]_vars

\* stream 2 is in the table and an accepted PUSH_PROMISE that promised
\* stream 0 has left highest_inbound_stream_id at 0
C34_HighestInboundFell ==
    /\ last.op = "receive_push_promise" /\ last.arg = 0
    /\ last.err = "none" /\ last.events # <<>>
    /\ 2 \in Ids(streams)
    /\ highest_inbound_stream_id = 0

\* the handler of the frame of a step, on a connection c
ReceiveHandler(l, c) ==
    CASE l.op = "receive_data" ->
            new_receive_data_frame(c,
                [stream_id |-> l.sid, data_len |-> l.arg.n,
                 flags |-> IF l.arg.padded THEN {"PADDED"} ELSE {},
                 pad_length |-> l.arg.pad_length])
      [] l.op = "receive_rst_stream" -> new_receive_rst_stream_frame(c, l.sid)
      [] OTHER -> new_receive_push_promise_frame(c, l.sid, l.arg)

\* C35: DATA, RST_STREAM and PUSH_PROMISE frames received never reach the
\* connection state machine: the state of the connection is left as it was,
\* and in every other state of the connection the handler would have raised
\* and returned the same and left the same streams and inbound window.
C35_ConnectionStateNotConsulted ==
    [][last'.op \in {"receive_data", "receive_rst_stream", "receive_push_promise"}
        => /\ conn_state' = conn_state
           /\ \A s \in ConnectionState :
                 LET r == ReceiveHandler(last', [Conn EXCEPT !.state = s])
                 IN /\ r.c.state = s
                    /\ r.err = last'.err
                    /\ r.frames = last'.frames
                    /\ r.events = last'.events
                    /\ r.c.streams = streams'
                    /\ r.c.closed = closed_streams'
                    /\ r.c.in_window = inbound_window']_vars

\* a PUSH_PROMISE frame was accepted on a closed connection
C35_Witness ==
    /\ conn_state = "CLOSED"
    /\ last.op = "receive_push_promise"
    /\ last.err = "none" /\ last.events # <<>>

\* RST_STREAM reset an open stream, and DATA was taken, on a closed
\* connection
C35_WitnessReset ==
    /\ conn_state = "CLOSED"
    /\ last.op = "receive_rst_stream" /\ last.sid # 0
    /\ last.err = "none" /\ last.events # <<>>

\* a DATA frame was taken on stream 1 of a closed connection
C35_WitnessData ==
    /\ conn_state = "CLOSED"
    /\ last.op = "receive_data" /\ last.err = "none"

\* C36: send_data changes nothing but the queue of bytes to send and the
\* outbound window of the connection: the stream table (no stream created,
\* no stream's state or windows changed, end_stream set or not), the record
\* of closed streams, the highest stream ids and the connection state are
\* all as they were.
C36_SendDataTouchesQueueAndWindowOnly ==
    [][last'.op = "send_data"
        => /\ streams' = streams
           /\ closed_streams' = closed_streams
           /\ conn_state' = conn_state
           /\ highest_inbound_stream_id' = highest_inbound_stream_id
           /\ highest_outbound_stream_id' = highest_outbound_stream_id
           /\ header_frames' = header_frames
           /\ inbound_window' = inbound_window
           /\ local_enable_push' = local_enable_push
           /\ config' = config]_vars

\* DATA with END_STREAM was sent on open stream 1 and the stream is still OPEN
C36_Witness ==
    /\ last.op = "send_data" /\ last.err = "none" /\ last.arg.end_stream
    /\ last.sid = 1 /\ 1 \in Ids(streams) /\ Get(streams, 1).state = "OPEN"
    /\ Len(data_to_send) >= 1
    /\ "END_STREAM" \in data_to_send[Len(data_to_send)].flags

\* DATA was sent on an id that has no stream, and the id still has none
C36_WitnessNoStream ==
    /\ last.op = "send_data" /\ last.err = "none"
    /\ last.sid \notin Ids(streams) /\ last.sid \notin Ids(closed_streams)
    /\ Len(data_to_send) >= 1

\* C38: send_data with a pad_length below 0 or above 255 raises before it
\* has done anything: the queue and the outbound window are as before the
\* call, and so is the rest of the connection.
C38_BadPadLengthHasNoEffect ==
    [][(last'.op = "send_data" /\ ~ValidPad(last'.arg.pad))
        => /\ last'.err = "ValueError"
           /\ data_to_send' = data_to_send
           /\ outbound_flow_control_window' = outbound_flow_control_window
           /\ UNCHANGED conn_vars]_vars

\* pad_length 256 was refused while a frame sent earlier was in the queue
C38_Witness ==
    /\ last.op = "send_data" /\ last.arg.pad = <<256>>
    /\ last.err = "ValueError"
    /\ Len(data_to_send) = 1
    /\ Below(outbound_flow_control_window, Whole(InitialWindowSize))

\* pad_length -1 was refused
C38_WitnessNegative ==
    /\ last.op = "send_data" /\ last.arg.pad = <<-1>>
    /\ last.err = "ValueError"
    /\ Len(data_to_send) = 1


\* a + b for two unbounded integers
Sum(a, b) == Plus([laps |-> a.laps + b.laps, rest |-> a.rest], b.rest)

\* C37: however send_data calls and WINDOW_UPDATE frames received on stream 0
\* are interleaved, the connection's outbound window is its initial value
\* plus the sum of the increments received minus the sum of the sizes
\* send_data charged, below 0 and above 2^31 - 1 alike, and no WINDOW_UPDATE
\* on stream 0 is refused.
C37_WindowIsInitialPlusReceivedMinusCharged ==
    /\ [](outbound_flow_control_window =
              Minus(Sum(Whole(InitialWindowSize), ledger.received), ledger.charged))
    /\ [][(last'.op = "receive_window_update" /\ last'.sid = 0)
            => last'.err = "none"]_vars

\* after DATA was sent, a WINDOW_UPDATE was taken that left the window above
\* the largest window, 2^31 - 1
C37_Witness ==
    /\ last.op = "receive_window_update" /\ last.sid = 0 /\ last.err = "none"
    /\ ledger.charged > 0
    /\ Below(Whole(LargestWindow), outbound_flow_control_window)

\* DATA was sent that left the window below 0
C37_WitnessBelowZero ==
    /\ last.op = "send_data" /\ last.err = "none"
    /\ ledger.charged > InitialWindowSize
    /\ Below(outbound_flow_control_window, Whole(0))

\* a WINDOW_UPDATE was taken by a window that DATA had left below what it was
\* at first
C37_WitnessMixed ==
    /\ last.op = "receive_window_update" /\ last.err = "none"
    /\ last.arg.increment = 1 /\ ledger.charged = 40000
    /\ outbound_flow_control_window = Whole(InitialWindowSize - 39999)


\* the bytes that reached the buffer: what the peer sent, less the preamble
Arrived == Drop(wire, Len(discarded))

\* C39: with nothing more added, asking the buffer for frames again and
\* again comes to an end. A call that yields a frame takes exactly the nine
\* header bytes and the body the header declares off the front of the buffer
\* and yields the frame those bytes parse to; a call that raises takes
\* nothing. So the buffer is always the end of what arrived, the frames
\* yielded are at most a ninth of the bytes taken, and the calls end in one
\* that raises (StopIteration for want of bytes, or an error), after which
\* every call does the same.
C39_DrainTerminatesInOrder ==
    /\ [][last'.op = "next"
            => IF last'.err = "none"
               THEN /\ HeadWhole
                    /\ incoming_buffer'.data =
                           Drop(incoming_buffer.data, 9 + U24(incoming_buffer.data))
                    /\ last'.frames = <<new_update_header_buffer(HeadOfBuffer)>>
                    /\ yielded' = yielded \o last'.frames
               ELSE /\ incoming_buffer' = incoming_buffer
                    /\ last'.frames = <<>>
                    /\ yielded' = yielded]_vars
    /\ [](LET taken == Len(Arrived) - Len(incoming_buffer.data)
          IN /\ incoming_buffer.data = Drop(Arrived, taken)
             /\ 9 * Len(yielded) <= taken)
    /\ <>[](last.op = "next" /\ last.err # "none")

\* two frames were yielded in the order of their bytes, and the next call
\* found the buffer empty
C39_Witness ==
    /\ last.op = "next" /\ last.err = "StopIteration"
    /\ Len(yielded) = 2
    /\ yielded[1].class = "DataFrame" /\ yielded[2].class = "SettingsFrame"
    /\ incoming_buffer.data = <<>>
    /\ Len(Arrived) = 20

\* after one frame was yielded the calls ended in an error, with a frame
\* whose body does not parse left at the head of the buffer
C39_WitnessError ==
    /\ last.op = "next" /\ last.err = "FrameDataMissingError"
    /\ Len(yielded) = 1
    /\ HeadMalformed

====
